---- MODULE Spec2Model ----
(***************************************************************************)
(* create_word_doc.py: a straight-line script that builds a Word document  *)
(* in memory with python-docx and writes it to one hard-coded path.        *)
(*                                                                         *)
(* The script is modelled statement by statement.  Each Python statement   *)
(* of the source is one record of Script (its source line is kept in the   *)
(* field "line"); for loops and the one conditional keep their control     *)
(* flow ("for"/"endfor", "if_startswith"/"else").  pc is the index of the  *)
(* statement executed next.  The file system, the clock read by the zip    *)
(* writer and the standard output are the environment of the run.          *)
(***************************************************************************)
EXTENDS Integers, Sequences, FiniteSets, TLC

\* How many times the script is run in succession.
MaxRuns == 2
\* The wall clock takes the values 0..MaxClock (zip timestamps).
MaxClock == 1

(***************************************************************************)
(* The statements of the script, in source order.  A text is a sequence of *)
(* parts: a literal ("lit"), the loop variable ("item"), a key of a dict   *)
(* loop variable ("key"), an element of an unpacked tuple ("elem", 0-based *)
(* as in Python), the enumerate counter ("num"), or a string variable      *)
(* ("path"); an f-string is the concatenation of its parts.                *)
(***************************************************************************)
\* SetupStmts: src/create_word_doc.py lines 8-14
SetupStmts ==
  << [op |-> "Document", line |-> 8, var |-> "doc"],
     [op |-> "bind_style", line |-> 11, var |-> "style", style |-> "Normal"],
     [op |-> "bind_font", line |-> 12, var |-> "font", of |-> "style"],
     [op |-> "set_font", line |-> 13, var |-> "font", attr |-> "name", val |-> "Calibri"],
     [op |-> "set_font", line |-> 14, var |-> "font", attr |-> "size", val |-> 11] >>

\* TitleStmts: src/create_word_doc.py lines 16-32
TitleStmts ==
  << [op |-> "add_paragraph", line |-> 17, var |-> "title", text |-> <<>>, style |-> "None"],
     [op |-> "add_run", line |-> 18, para |-> "title", var |-> "title_run", text |-> <<[k |-> "lit", v |-> "Spring Boot E-Commerce Backend"]>>, bold |-> FALSE],
     [op |-> "set_run", line |-> 19, var |-> "title_run", attr |-> "size", val |-> 28],
     [op |-> "set_run", line |-> 20, var |-> "title_run", attr |-> "bold", val |-> TRUE],
     [op |-> "set_run", line |-> 21, var |-> "title_run", attr |-> "color", val |-> <<0, 51, 102>>],
     [op |-> "set_alignment", line |-> 22, var |-> "title", val |-> "WD_ALIGN_PARAGRAPH.CENTER"],
     [op |-> "add_paragraph", line |-> 25, var |-> "subtitle", text |-> <<>>, style |-> "None"],
     [op |-> "add_run", line |-> 26, para |-> "subtitle", var |-> "subtitle_run", text |-> <<[k |-> "lit", v |-> "Complete Architecture Guide"]>>, bold |-> FALSE],
     [op |-> "set_run", line |-> 27, var |-> "subtitle_run", attr |-> "size", val |-> 18],
     [op |-> "set_run", line |-> 28, var |-> "subtitle_run", attr |-> "italic", val |-> TRUE],
     [op |-> "set_run", line |-> 29, var |-> "subtitle_run", attr |-> "color", val |-> <<51, 102, 153>>],
     [op |-> "set_alignment", line |-> 30, var |-> "subtitle", val |-> "WD_ALIGN_PARAGRAPH.CENTER"],
     [op |-> "add_paragraph", line |-> 32, var |-> "", text |-> <<>>, style |-> "None"] >>

\* Variant of TocStmts: the entry of section 7 is missing from toc_items.
TocStmtsMissingEntry ==
  << [op |-> "add_heading", line |-> 35, text |-> <<[k |-> "lit", v |-> "Table of Contents"]>>, level |-> 1],
     [op |-> "assign_list", line |-> 36, var |-> "toc_items", items |-> <<
      "1. Overview",
      "2. Architecture & Flow",
      "3. Technology Stack",
      "4. How Components Connect",
      "5. Key Annotations Explained",
      "6. Database & ORM Concepts",
      "8. Request-Response Lifecycle" >>],
     [op |-> "for", line |-> 46, list |-> "toc_items", start |-> -1, n |-> 1],
     [op |-> "add_paragraph", line |-> 47, var |-> "", text |-> <<[k |-> "item", v |-> "item"]>>, style |-> "List Bullet"],
     [op |-> "endfor", line |-> 47, n |-> 1],
     [op |-> "add_page_break", line |-> 49] >>

\* TocStmts: src/create_word_doc.py lines 34-49
TocStmts ==
  << [op |-> "add_heading", line |-> 35, text |-> <<[k |-> "lit", v |-> "Table of Contents"]>>, level |-> 1],
     [op |-> "assign_list", line |-> 36, var |-> "toc_items", items |-> <<
      "1. Overview",
      "2. Architecture & Flow",
      "3. Technology Stack",
      "4. How Components Connect",
      "5. Key Annotations Explained",
      "6. Database & ORM Concepts",
      "7. API Endpoints",
      "8. Request-Response Lifecycle" >>],
     [op |-> "for", line |-> 46, list |-> "toc_items", start |-> -1, n |-> 1],
     [op |-> "add_paragraph", line |-> 47, var |-> "", text |-> <<[k |-> "item", v |-> "item"]>>, style |-> "List Bullet"],
     [op |-> "endfor", line |-> 47, n |-> 1],
     [op |-> "add_page_break", line |-> 49] >>

\* Section1Stmts: src/create_word_doc.py lines 51-88
Section1Stmts ==
  << [op |-> "add_heading", line |-> 52, text |-> <<[k |-> "lit", v |-> "1. Overview"]>>, level |-> 1],
     [op |-> "add_paragraph", line |-> 53, var |-> "", text |-> <<[k |-> "lit", v |-> "Your project is a REST API backend for an e-commerce application that allows users to:"]>>, style |-> "None"],
     [op |-> "assign_list", line |-> 56, var |-> "overview_items", items |-> <<
      "View all products",
      "View a single product",
      "Upload products with images",
      "Retrieve product images" >>],
     [op |-> "for", line |-> 62, list |-> "overview_items", start |-> -1, n |-> 1],
     [op |-> "add_paragraph", line |-> 63, var |-> "", text |-> <<[k |-> "item", v |-> "item"]>>, style |-> "List Bullet"],
     [op |-> "endfor", line |-> 63, n |-> 1],
     [op |-> "add_paragraph", line |-> 65, var |-> "", text |-> <<>>, style |-> "None"],
     [op |-> "add_paragraph", line |-> 66, var |-> "", text |-> <<[k |-> "lit", v |-> "The architecture follows the Layered/Tier Architecture pattern:"]>>, style |-> "None"],
     [op |-> "add_paragraph", line |-> 69, var |-> "arch_text", text |-> <<>>, style |-> "None"],
     [op |-> "add_run", line |-> 70, para |-> "arch_text", var |-> "", text |-> <<[k |-> "lit", v |-> "Client (Browser/Mobile App)\n"]>>, bold |-> TRUE],
     [op |-> "add_paragraph", line |-> 71, var |-> "", text |-> <<[k |-> "lit", v |-> "↓"]>>, style |-> "List Bullet"],
     [op |-> "add_paragraph", line |-> 72, var |-> "arch_text", text |-> <<>>, style |-> "None"],
     [op |-> "add_run", line |-> 73, para |-> "arch_text", var |-> "", text |-> <<[k |-> "lit", v |-> "Controller Layer"]>>, bold |-> TRUE],
     [op |-> "add_run", line |-> 74, para |-> "arch_text", var |-> "", text |-> <<[k |-> "lit", v |-> " ← Handles HTTP requests/responses"]>>, bold |-> FALSE],
     [op |-> "add_paragraph", line |-> 75, var |-> "", text |-> <<[k |-> "lit", v |-> "↓"]>>, style |-> "List Bullet"],
     [op |-> "add_paragraph", line |-> 76, var |-> "arch_text", text |-> <<>>, style |-> "None"],
     [op |-> "add_run", line |-> 77, para |-> "arch_text", var |-> "", text |-> <<[k |-> "lit", v |-> "Service Layer"]>>, bold |-> TRUE],
     [op |-> "add_run", line |-> 78, para |-> "arch_text", var |-> "", text |-> <<[k |-> "lit", v |-> " ← Business logic"]>>, bold |-> FALSE],
     [op |-> "add_paragraph", line |-> 79, var |-> "", text |-> <<[k |-> "lit", v |-> "↓"]>>, style |-> "List Bullet"],
     [op |-> "add_paragraph", line |-> 80, var |-> "arch_text", text |-> <<>>, style |-> "None"],
     [op |-> "add_run", line |-> 81, para |-> "arch_text", var |-> "", text |-> <<[k |-> "lit", v |-> "Repository Layer"]>>, bold |-> TRUE],
     [op |-> "add_run", line |-> 82, para |-> "arch_text", var |-> "", text |-> <<[k |-> "lit", v |-> " ← Database access"]>>, bold |-> FALSE],
     [op |-> "add_paragraph", line |-> 83, var |-> "", text |-> <<[k |-> "lit", v |-> "↓"]>>, style |-> "List Bullet"],
     [op |-> "add_paragraph", line |-> 84, var |-> "arch_text", text |-> <<>>, style |-> "None"],
     [op |-> "add_run", line |-> 85, para |-> "arch_text", var |-> "", text |-> <<[k |-> "lit", v |-> "Database (H2)"]>>, bold |-> TRUE],
     [op |-> "add_run", line |-> 86, para |-> "arch_text", var |-> "", text |-> <<[k |-> "lit", v |-> " ← Data storage"]>>, bold |-> FALSE],
     [op |-> "add_page_break", line |-> 88] >>

\* Section2Stmts: src/create_word_doc.py lines 90-206
Section2Stmts ==
  << [op |-> "add_heading", line |-> 91, text |-> <<[k |-> "lit", v |-> "2. Architecture & Flow"]>>, level |-> 1],
     [op |-> "add_heading", line |-> 94, text |-> <<[k |-> "lit", v |-> "Layer 1: Controller Layer (ProductController.java)"]>>, level |-> 2],
     [op |-> "add_heading", line |-> 95, text |-> <<[k |-> "lit", v |-> "Purpose:"]>>, level |-> 3],
     [op |-> "add_paragraph", line |-> 96, var |-> "", text |-> <<[k |-> "lit", v |-> "Handle incoming HTTP requests and send responses back to clients."]>>, style |-> "None"],
     [op |-> "add_heading", line |-> 98, text |-> <<[k |-> "lit", v |-> "How it works:"]>>, level |-> 3],
     [op |-> "assign_list", line |-> 99, var |-> "controller_points", items |-> <<
      "Receives HTTP requests (GET, POST, etc.)",
      "Parses request data (path variables, request body, file uploads)",
      "Calls business logic from the Service layer",
      "Sends HTTP responses back (JSON, images, etc.)",
      "Handles HTTP status codes (200 OK, 201 CREATED, 404 NOT FOUND, 500 ERROR)" >>],
     [op |-> "for", line |-> 106, list |-> "controller_points", start |-> -1, n |-> 1],
     [op |-> "add_paragraph", line |-> 107, var |-> "", text |-> <<[k |-> "item", v |-> "point"]>>, style |-> "List Bullet"],
     [op |-> "endfor", line |-> 107, n |-> 1],
     [op |-> "add_heading", line |-> 109, text |-> <<[k |-> "lit", v |-> "Your Controllers:"]>>, level |-> 3],
     [op |-> "add_table", line |-> 110, var |-> "table", rows |-> 5, cols |-> 2],
     [op |-> "set_table_style", line |-> 111, var |-> "table", val |-> "Light Grid Accent 1"],
     [op |-> "set_cell_text", line |-> 112, var |-> "table", row |-> 0, col |-> 0, val |-> "HTTP Method & Path"],
     [op |-> "set_cell_text", line |-> 113, var |-> "table", row |-> 0, col |-> 1, val |-> "Purpose"],
     [op |-> "set_cell_text", line |-> 114, var |-> "table", row |-> 1, col |-> 0, val |-> "GET /api/products"],
     [op |-> "set_cell_text", line |-> 115, var |-> "table", row |-> 1, col |-> 1, val |-> "Get all products"],
     [op |-> "set_cell_text", line |-> 116, var |-> "table", row |-> 2, col |-> 0, val |-> "GET /api/product/{id}"],
     [op |-> "set_cell_text", line |-> 117, var |-> "table", row |-> 2, col |-> 1, val |-> "Get single product by ID"],
     [op |-> "set_cell_text", line |-> 118, var |-> "table", row |-> 3, col |-> 0, val |-> "POST /api/product"],
     [op |-> "set_cell_text", line |-> 119, var |-> "table", row |-> 3, col |-> 1, val |-> "Add new product with image"],
     [op |-> "set_cell_text", line |-> 120, var |-> "table", row |-> 4, col |-> 0, val |-> "GET /api/product/{productId}/image"],
     [op |-> "set_cell_text", line |-> 121, var |-> "table", row |-> 4, col |-> 1, val |-> "Download product image"],
     [op |-> "add_paragraph", line |-> 123, var |-> "", text |-> <<>>, style |-> "None"],
     [op |-> "add_heading", line |-> 126, text |-> <<[k |-> "lit", v |-> "Layer 2: Service Layer (ProductService.java)"]>>, level |-> 2],
     [op |-> "add_heading", line |-> 127, text |-> <<[k |-> "lit", v |-> "Purpose:"]>>, level |-> 3],
     [op |-> "add_paragraph", line |-> 128, var |-> "", text |-> <<[k |-> "lit", v |-> "Contains business logic, data validation, and orchestration."]>>, style |-> "None"],
     [op |-> "add_heading", line |-> 130, text |-> <<[k |-> "lit", v |-> "How it works:"]>>, level |-> 3],
     [op |-> "assign_list", line |-> 131, var |-> "service_points", items |-> <<
      "Receives data from the Controller",
      "Processes the business logic (e.g., converting image file to bytes)",
      "Validates data before saving",
      "Calls the Repository to access the database",
      "Returns processed data back to the Controller" >>],
     [op |-> "for", line |-> 138, list |-> "service_points", start |-> -1, n |-> 1],
     [op |-> "add_paragraph", line |-> 139, var |-> "", text |-> <<[k |-> "item", v |-> "point"]>>, style |-> "List Bullet"],
     [op |-> "endfor", line |-> 139, n |-> 1],
     [op |-> "add_heading", line |-> 141, text |-> <<[k |-> "lit", v |-> "Your Service Methods:"]>>, level |-> 3],
     [op |-> "assign_list", line |-> 142, var |-> "service_methods", items |-> <<
      "getAllProducts() → Retrieves all products from database",
      "getProductById(int id) → Retrieves a specific product",
      "addProduct(product, file) → Saves product + converts image to binary" >>],
     [op |-> "for", line |-> 147, list |-> "service_methods", start |-> -1, n |-> 1],
     [op |-> "add_paragraph", line |-> 148, var |-> "", text |-> <<[k |-> "item", v |-> "method"]>>, style |-> "List Bullet"],
     [op |-> "endfor", line |-> 148, n |-> 1],
     [op |-> "add_heading", line |-> 151, text |-> <<[k |-> "lit", v |-> "Layer 3: Repository Layer (ProductRepo.java)"]>>, level |-> 2],
     [op |-> "add_heading", line |-> 152, text |-> <<[k |-> "lit", v |-> "Purpose:"]>>, level |-> 3],
     [op |-> "add_paragraph", line |-> 153, var |-> "", text |-> <<[k |-> "lit", v |-> "Database access abstraction. Uses Spring Data JPA."]>>, style |-> "None"],
     [op |-> "add_heading", line |-> 155, text |-> <<[k |-> "lit", v |-> "How it works:"]>>, level |-> 3],
     [op |-> "assign_list", line |-> 156, var |-> "repo_points", items |-> <<
      "Extends JpaRepository<Product, Integer>",
      "Provides pre-built methods: findAll(), findById(), save(), delete(), etc.",
      "No need to write SQL queries for basic CRUD operations",
      "Spring automatically generates database queries" >>],
     [op |-> "for", line |-> 162, list |-> "repo_points", start |-> -1, n |-> 1],
     [op |-> "add_paragraph", line |-> 163, var |-> "", text |-> <<[k |-> "item", v |-> "point"]>>, style |-> "List Bullet"],
     [op |-> "endfor", line |-> 163, n |-> 1],
     [op |-> "add_heading", line |-> 165, text |-> <<[k |-> "lit", v |-> "What JpaRepository provides (out of the box):"]>>, level |-> 3],
     [op |-> "assign_list", line |-> 166, var |-> "jpa_methods", items |-> <<
      "save(entity) → INSERT or UPDATE",
      "findAll() → SELECT *",
      "findById(id) → SELECT WHERE id = ?",
      "delete(entity) → DELETE",
      "count() → COUNT(*)",
      "... and many more" >>],
     [op |-> "for", line |-> 174, list |-> "jpa_methods", start |-> -1, n |-> 1],
     [op |-> "add_paragraph", line |-> 175, var |-> "", text |-> <<[k |-> "item", v |-> "method"]>>, style |-> "List Bullet"],
     [op |-> "endfor", line |-> 175, n |-> 1],
     [op |-> "add_heading", line |-> 178, text |-> <<[k |-> "lit", v |-> "Layer 4: Model/Entity Layer (Product.java)"]>>, level |-> 2],
     [op |-> "add_heading", line |-> 179, text |-> <<[k |-> "lit", v |-> "Purpose:"]>>, level |-> 3],
     [op |-> "add_paragraph", line |-> 180, var |-> "", text |-> <<[k |-> "lit", v |-> "Defines the database table structure as a Java class."]>>, style |-> "None"],
     [op |-> "add_heading", line |-> 182, text |-> <<[k |-> "lit", v |-> "How it works:"]>>, level |-> 3],
     [op |-> "assign_list", line |-> 183, var |-> "model_points", items |-> <<
      "Each class with @Entity annotation = one database table",
      "Each field with @Id = primary key",
      "Each private field = one database column",
      "JPA/Hibernate automatically creates/updates the table" >>],
     [op |-> "for", line |-> 189, list |-> "model_points", start |-> -1, n |-> 1],
     [op |-> "add_paragraph", line |-> 190, var |-> "", text |-> <<[k |-> "item", v |-> "point"]>>, style |-> "List Bullet"],
     [op |-> "endfor", line |-> 190, n |-> 1],
     [op |-> "add_heading", line |-> 192, text |-> <<[k |-> "lit", v |-> "Layer 5: Database (H2 In-Memory)"]>>, level |-> 2],
     [op |-> "add_heading", line |-> 193, text |-> <<[k |-> "lit", v |-> "Purpose:"]>>, level |-> 3],
     [op |-> "add_paragraph", line |-> 194, var |-> "", text |-> <<[k |-> "lit", v |-> "Stores all data persistently (during runtime)."]>>, style |-> "None"],
     [op |-> "add_heading", line |-> 196, text |-> <<[k |-> "lit", v |-> "Current Setup:"]>>, level |-> 3],
     [op |-> "assign_list", line |-> 197, var |-> "db_setup", items |-> <<
      "H2 embedded database (in-memory)",
      "URL: jdbc:h2:mem:ecomdb",
      "Automatically creates tables when application starts",
      "Data is lost when application stops" >>],
     [op |-> "for", line |-> 203, list |-> "db_setup", start |-> -1, n |-> 1],
     [op |-> "add_paragraph", line |-> 204, var |-> "", text |-> <<[k |-> "item", v |-> "item"]>>, style |-> "List Bullet"],
     [op |-> "endfor", line |-> 204, n |-> 1],
     [op |-> "add_page_break", line |-> 206] >>

\* Section3Stmts: src/create_word_doc.py lines 208-241
Section3Stmts ==
  << [op |-> "add_heading", line |-> 209, text |-> <<[k |-> "lit", v |-> "3. Technology Stack"]>>, level |-> 1],
     [op |-> "add_heading", line |-> 210, text |-> <<[k |-> "lit", v |-> "Dependencies (from pom.xml):"]>>, level |-> 2],
     [op |-> "assign_list", line |-> 212, var |-> "dependencies", items |-> <<
      [name |-> "spring-boot-starter-data-jpa", desc |-> "Provides JPA (Java Persistence API) interface. Enables Hibernate ORM (Object-Relational Mapping). Converts Java objects to database records."],
      [name |-> "spring-boot-starter-web", desc |-> "Provides REST API capabilities. Includes embedded Tomcat server. Handles HTTP requests/responses. Makes your application a web server."],
      [name |-> "spring-boot-devtools", desc |-> "Auto-restarts application when files change. Faster development cycle."],
      [name |-> "h2 (H2 Database)", desc |-> "Lightweight, in-memory database. Good for learning and testing. Stores your product data."],
      [name |-> "lombok", desc |-> "Reduces boilerplate Java code. Auto-generates getters, setters, constructors. Annotations: @Data, @AllArgsConstructor, @NoArgsConstructor"] >>],
     [op |-> "for", line |-> 235, list |-> "dependencies", start |-> -1, n |-> 4],
     [op |-> "add_paragraph", line |-> 236, var |-> "p", text |-> <<>>, style |-> "None"],
     [op |-> "add_run", line |-> 237, para |-> "p", var |-> "p_run", text |-> <<[k |-> "key", v |-> "name"]>>, bold |-> FALSE],
     [op |-> "set_run", line |-> 238, var |-> "p_run", attr |-> "bold", val |-> TRUE],
     [op |-> "add_paragraph", line |-> 239, var |-> "", text |-> <<[k |-> "key", v |-> "desc"]>>, style |-> "List Bullet"],
     [op |-> "endfor", line |-> 239, n |-> 4],
     [op |-> "add_page_break", line |-> 241] >>

\* Section4Stmts: src/create_word_doc.py lines 243-294
Section4Stmts ==
  << [op |-> "add_heading", line |-> 244, text |-> <<[k |-> "lit", v |-> "4. How Components Connect"]>>, level |-> 1],
     [op |-> "add_heading", line |-> 246, text |-> <<[k |-> "lit", v |-> "Example 1: GET /api/products Request Flow"]>>, level |-> 2],
     [op |-> "assign_list", line |-> 248, var |-> "flow_steps", items |-> <<
      <<"CLIENT sends", "GET http://localhost:8080/api/products">>,
      <<"TOMCAT SERVLET", "embedded web server receives request">>,
      <<"SPRING DISPATCHER", "detects @GetMapping(\"/products\")">>,
      <<"CONTROLLER", "executes: getAllProducts()">>,
      <<"SERVICE", "executes: getAllProducts() → calls repo.findAll()">>,
      <<"REPOSITORY", "generates SQL: SELECT * FROM product">>,
      <<"DATABASE (H2)", "returns: List of all Product records">>,
      <<"REPOSITORY", "converts SQL results → List<Product> objects">>,
      <<"SERVICE", "returns this List to Controller">>,
      <<"CONTROLLER", "wraps in ResponseEntity with HTTP 200 OK">>,
      <<"SPRING JACKSON", "converts List<Product> → JSON">>,
      <<"CLIENT", "receives JSON response with all products">> >>],
     [op |-> "for", line |-> 263, list |-> "flow_steps", start |-> 1, n |-> 4],
     [op |-> "add_paragraph", line |-> 264, var |-> "p", text |-> <<>>, style |-> "None"],
     [op |-> "add_run", line |-> 265, para |-> "p", var |-> "p_run", text |-> <<[k |-> "num", v |-> "step_num"], [k |-> "lit", v |-> ". "], [k |-> "elem", v |-> 0], [k |-> "lit", v |-> ": "]>>, bold |-> FALSE],
     [op |-> "set_run", line |-> 266, var |-> "p_run", attr |-> "bold", val |-> TRUE],
     [op |-> "add_run", line |-> 267, para |-> "p", var |-> "", text |-> <<[k |-> "elem", v |-> 1]>>, bold |-> FALSE],
     [op |-> "endfor", line |-> 267, n |-> 4],
     [op |-> "add_paragraph", line |-> 269, var |-> "", text |-> <<>>, style |-> "None"],
     [op |-> "add_heading", line |-> 270, text |-> <<[k |-> "lit", v |-> "Example 2: POST /api/product Request Flow (with Image Upload)"]>>, level |-> 2],
     [op |-> "assign_list", line |-> 272, var |-> "flow_steps_2", items |-> <<
      <<"CLIENT sends", "POST http://localhost:8080/api/product with FormData (product + imageFile)">>,
      <<"SPRING MULTIPART HANDLER", "parses the FormData">>,
      <<"CONTROLLER", "executes: addProduct(Product, MultipartFile)">>,
      <<"SERVICE", "extracts image metadata (filename, content-type, bytes)">>,
      <<"SERVICE", "sets image data on Product object">>,
      <<"SERVICE", "calls repo.save(product)">>,
      <<"REPOSITORY", "generates SQL: INSERT INTO product (...)">>,
      <<"DATABASE", "stores the Product record and auto-generates ID">>,
      <<"REPOSITORY", "returns saved Product object with ID">>,
      <<"SERVICE", "returns Product to Controller">>,
      <<"CONTROLLER", "returns ResponseEntity with HTTP 201 CREATED">>,
      <<"JACKSON", "converts Product to JSON (imageData excluded by @JsonIgnore)">>,
      <<"CLIENT", "receives HTTP 201 with created product data">> >>],
     [op |-> "for", line |-> 288, list |-> "flow_steps_2", start |-> 1, n |-> 4],
     [op |-> "add_paragraph", line |-> 289, var |-> "p", text |-> <<>>, style |-> "None"],
     [op |-> "add_run", line |-> 290, para |-> "p", var |-> "p_run", text |-> <<[k |-> "num", v |-> "step_num"], [k |-> "lit", v |-> ". "], [k |-> "elem", v |-> 0], [k |-> "lit", v |-> ": "]>>, bold |-> FALSE],
     [op |-> "set_run", line |-> 291, var |-> "p_run", attr |-> "bold", val |-> TRUE],
     [op |-> "add_run", line |-> 292, para |-> "p", var |-> "", text |-> <<[k |-> "elem", v |-> 1]>>, bold |-> FALSE],
     [op |-> "endfor", line |-> 292, n |-> 4],
     [op |-> "add_page_break", line |-> 294] >>

\* Section5Stmts: src/create_word_doc.py lines 296-422
Section5Stmts ==
  << [op |-> "add_heading", line |-> 297, text |-> <<[k |-> "lit", v |-> "5. Key Annotations Explained"]>>, level |-> 1],
     [op |-> "add_heading", line |-> 299, text |-> <<[k |-> "lit", v |-> "Controller Annotations"]>>, level |-> 2],
     [op |-> "assign_list", line |-> 301, var |-> "annotations", items |-> <<
      [name |-> "@RestController", code |-> "@RestController\npublic class ProductController { ... }", explanation |-> "Tells Spring: \"This class handles REST API requests\". Every method returns JSON/data automatically (not HTML templates). Combines @Controller + @ResponseBody"],
      [name |-> "@RequestMapping(\"/api\")", code |-> "@RequestMapping(\"/api\")\npublic class ProductController { ... }", explanation |-> "Base URL prefix for all endpoints in this controller. All endpoints start with /api/. Example: Full URL becomes /api/products"],
      [name |-> "@CrossOrigin", code |-> "@CrossOrigin\npublic class ProductController { ... }", explanation |-> "Allows requests from different domains/ports. Without this: Frontend on port 3000 cannot call backend on port 8080. CORS = Cross-Origin Resource Sharing"],
      [name |-> "@GetMapping(\"/products\")", code |-> "@GetMapping(\"/products\")\npublic ResponseEntity<List<Product>> getAllProducts() { ... }", explanation |-> "Maps HTTP GET requests to /api/products to this method. Similar: @PostMapping, @PutMapping, @DeleteMapping"],
      [name |-> "@PostMapping(value = \"/product\", consumes = {\"multipart/form-data\"})", code |-> "@PostMapping(value = \"/product\", consumes = {\"multipart/form-data\"})\npublic ResponseEntity<?> addProduct(...) { ... }", explanation |-> "Maps HTTP POST requests to /api/product. consumes = {\"multipart/form-data\"} means: Accept file uploads (FormData). Without this: Cannot accept image files"],
      [name |-> "@PathVariable", code |-> "@GetMapping(\"/product/{id}\")\npublic ResponseEntity<Product> getProduct(@PathVariable int id) { ... }", explanation |-> "Extracts URL parameter {id} as a Java variable. Example: /product/5 → id = 5"],
      [name |-> "@RequestPart", code |-> "@PostMapping(\"/product\")\npublic ResponseEntity<?> addProduct(\n    @RequestPart Product product,\n    @RequestPart MultipartFile imageFile\n) { ... }", explanation |-> "Extracts named form fields from multipart request. @RequestPart Product → Extract form field named \"product\". @RequestPart MultipartFile → Extract file upload named \"imageFile\""] >>],
     [op |-> "for", line |-> 339, list |-> "annotations", start |-> -1, n |-> 10],
     [op |-> "add_heading", line |-> 340, text |-> <<[k |-> "key", v |-> "name"]>>, level |-> 3],
     [op |-> "add_paragraph", line |-> 341, var |-> "p", text |-> <<>>, style |-> "None"],
     [op |-> "add_run", line |-> 342, para |-> "p", var |-> "p_run", text |-> <<[k |-> "lit", v |-> "Code:"]>>, bold |-> FALSE],
     [op |-> "set_run", line |-> 343, var |-> "p_run", attr |-> "bold", val |-> TRUE],
     [op |-> "add_paragraph", line |-> 344, var |-> "code_para", text |-> <<[k |-> "key", v |-> "code"]>>, style |-> "List Bullet"],
     [op |-> "set_para_style_font", line |-> 345, var |-> "code_para", attr |-> "name", val |-> "Courier New"],
     [op |-> "add_paragraph", line |-> 347, var |-> "p", text |-> <<>>, style |-> "None"],
     [op |-> "add_run", line |-> 348, para |-> "p", var |-> "p_run", text |-> <<[k |-> "lit", v |-> "Explanation:"]>>, bold |-> FALSE],
     [op |-> "set_run", line |-> 349, var |-> "p_run", attr |-> "bold", val |-> TRUE],
     [op |-> "add_paragraph", line |-> 350, var |-> "", text |-> <<[k |-> "key", v |-> "explanation"]>>, style |-> "List Bullet"],
     [op |-> "endfor", line |-> 350, n |-> 10],
     [op |-> "add_heading", line |-> 352, text |-> <<[k |-> "lit", v |-> "Entity/Model Annotations"]>>, level |-> 2],
     [op |-> "assign_list", line |-> 354, var |-> "entity_annotations", items |-> <<
      [name |-> "@Entity", explanation |-> "Tells JPA: \"This class represents a database table\". Table name = class name (lowercase by default). Product class → product table"],
      [name |-> "@Id", explanation |-> "Marks this field as PRIMARY KEY. Must be unique for each record. Used to uniquely identify a product."],
      [name |-> "@GeneratedValue(strategy = GenerationType.IDENTITY)", explanation |-> "Auto-generates ID value when new product is inserted. IDENTITY = Database auto-increment (incrementing numbers). You don't set ID manually; database does it."],
      [name |-> "@Lob (Large Object)", explanation |-> "Tells JPA: This field stores large binary data. byte[] = array of bytes (binary image data). Stores in BLOB column in database."],
      [name |-> "@Basic(fetch = FetchType.LAZY)", explanation |-> "LAZY = Don't load this field by default. When you fetch a Product, imageData is NOT loaded (saves memory/bandwidth). Load imageData only when explicitly accessed. Good for large binary data."],
      [name |-> "@JsonIgnore", explanation |-> "When converting Product to JSON: skip this field. Why: Don't send huge binary data in API response. Instead: Provide separate /image endpoint to download."],
      [name |-> "@JsonIgnoreProperties", explanation |-> "Ignores Hibernate proxy fields when serializing to JSON. Prevents JSON serialization errors."],
      [name |-> "@Data (Lombok)", explanation |-> "Auto-generates: getters, setters, toString(), equals(), hashCode(). Reduces boilerplate code. Combines: @Getter + @Setter + @ToString + @EqualsAndHashCode"],
      [name |-> "@AllArgsConstructor (Lombok)", explanation |-> "Auto-generates constructor with all fields as parameters. Example: new Product(id, name, brand, price, ...)"],
      [name |-> "@NoArgsConstructor (Lombok)", explanation |-> "Auto-generates empty constructor. Example: new Product()"] >>],
     [op |-> "for", line |-> 397, list |-> "entity_annotations", start |-> -1, n |-> 2],
     [op |-> "add_heading", line |-> 398, text |-> <<[k |-> "key", v |-> "name"]>>, level |-> 3],
     [op |-> "add_paragraph", line |-> 399, var |-> "", text |-> <<[k |-> "key", v |-> "explanation"]>>, style |-> "None"],
     [op |-> "endfor", line |-> 399, n |-> 2],
     [op |-> "add_heading", line |-> 401, text |-> <<[k |-> "lit", v |-> "Service Annotations"]>>, level |-> 2],
     [op |-> "assign_list", line |-> 403, var |-> "service_annotations", items |-> <<
      [name |-> "@Service", explanation |-> "Tells Spring: \"This is a service class (business logic)\". Spring automatically creates an instance (bean) of this class. Can be injected into other classes."],
      [name |-> "@Autowired", explanation |-> "Tells Spring: \"Automatically inject an instance of ProductService\". Dependency Injection: Spring finds and provides the object. Don't use new ProductService() manually."] >>],
     [op |-> "for", line |-> 414, list |-> "service_annotations", start |-> -1, n |-> 2],
     [op |-> "add_heading", line |-> 415, text |-> <<[k |-> "key", v |-> "name"]>>, level |-> 3],
     [op |-> "add_paragraph", line |-> 416, var |-> "", text |-> <<[k |-> "key", v |-> "explanation"]>>, style |-> "None"],
     [op |-> "endfor", line |-> 416, n |-> 2],
     [op |-> "add_heading", line |-> 418, text |-> <<[k |-> "lit", v |-> "Repository Annotations"]>>, level |-> 2],
     [op |-> "add_heading", line |-> 419, text |-> <<[k |-> "lit", v |-> "@Repository"]>>, level |-> 3],
     [op |-> "add_paragraph", line |-> 420, var |-> "", text |-> <<[k |-> "lit", v |-> "Tells Spring: \"This is a data access object\". Enables automatic SQL generation. <Product, Integer> = Entity type, Primary Key type."]>>, style |-> "None"],
     [op |-> "add_page_break", line |-> 422] >>

\* Section6Stmts: src/create_word_doc.py lines 424-511
Section6Stmts ==
  << [op |-> "add_heading", line |-> 425, text |-> <<[k |-> "lit", v |-> "6. Database & ORM Concepts"]>>, level |-> 1],
     [op |-> "add_heading", line |-> 427, text |-> <<[k |-> "lit", v |-> "What is ORM (Object-Relational Mapping)?"]>>, level |-> 2],
     [op |-> "add_paragraph", line |-> 428, var |-> "", text |-> <<[k |-> "lit", v |-> "ORM bridges Java objects and database tables:"]>>, style |-> "None"],
     [op |-> "add_paragraph", line |-> 430, var |-> "", text |-> <<>>, style |-> "None"],
     [op |-> "assign_list", line |-> 431, var |-> "orm_points", items |-> <<
      "Product class ↔ product table",
      "Product object ↔ product row",
      "id field ↔ id column",
      "name field ↔ name column",
      "imageData field ↔ image_data column" >>],
     [op |-> "for", line |-> 438, list |-> "orm_points", start |-> -1, n |-> 1],
     [op |-> "add_paragraph", line |-> 439, var |-> "", text |-> <<[k |-> "item", v |-> "point"]>>, style |-> "List Bullet"],
     [op |-> "endfor", line |-> 439, n |-> 1],
     [op |-> "add_heading", line |-> 441, text |-> <<[k |-> "lit", v |-> "Benefits:"]>>, level |-> 3],
     [op |-> "assign_list", line |-> 442, var |-> "benefits", items |-> <<
      "Write Java code instead of SQL queries",
      "Database agnostic (switch from H2 to MySQL easily)",
      "Automatic type conversion (Java types ↔ SQL types)" >>],
     [op |-> "for", line |-> 447, list |-> "benefits", start |-> -1, n |-> 1],
     [op |-> "add_paragraph", line |-> 448, var |-> "", text |-> <<[k |-> "item", v |-> "benefit"]>>, style |-> "List Bullet"],
     [op |-> "endfor", line |-> 448, n |-> 1],
     [op |-> "add_heading", line |-> 450, text |-> <<[k |-> "lit", v |-> "What is Hibernate?"]>>, level |-> 2],
     [op |-> "add_paragraph", line |-> 451, var |-> "", text |-> <<[k |-> "lit", v |-> "Hibernate is the ORM framework that:"]>>, style |-> "None"],
     [op |-> "assign_list", line |-> 452, var |-> "hibernate_points", items |-> <<
      "Generates SQL queries from your Java code",
      "Converts database records to Java objects",
      "Manages entity lifecycle (new, managed, detached, removed)",
      "Handles relationships between entities" >>],
     [op |-> "for", line |-> 458, list |-> "hibernate_points", start |-> -1, n |-> 1],
     [op |-> "add_paragraph", line |-> 459, var |-> "", text |-> <<[k |-> "item", v |-> "point"]>>, style |-> "List Number"],
     [op |-> "endfor", line |-> 459, n |-> 1],
     [op |-> "add_heading", line |-> 461, text |-> <<[k |-> "lit", v |-> "Example:"]>>, level |-> 3],
     [op |-> "add_paragraph", line |-> 462, var |-> "", text |-> <<[k |-> "lit", v |-> "Instead of writing:"]>>, style |-> "None"],
     [op |-> "add_paragraph", line |-> 463, var |-> "sql_example", text |-> <<[k |-> "lit", v |-> "SELECT * FROM product WHERE id = 1;"]>>, style |-> "List Bullet"],
     [op |-> "set_para_style_font", line |-> 464, var |-> "sql_example", attr |-> "name", val |-> "Courier New"],
     [op |-> "add_paragraph", line |-> 466, var |-> "", text |-> <<[k |-> "lit", v |-> "You write:"]>>, style |-> "None"],
     [op |-> "add_paragraph", line |-> 467, var |-> "java_example", text |-> <<[k |-> "lit", v |-> "Product product = repo.findById(1).orElse(null);"]>>, style |-> "List Bullet"],
     [op |-> "set_para_style_font", line |-> 468, var |-> "java_example", attr |-> "name", val |-> "Courier New"],
     [op |-> "add_paragraph", line |-> 470, var |-> "", text |-> <<[k |-> "lit", v |-> "Hibernate generates the SQL for you!"]>>, style |-> "None"],
     [op |-> "add_heading", line |-> 472, text |-> <<[k |-> "lit", v |-> "JPA vs Hibernate:"]>>, level |-> 2],
     [op |-> "assign_list", line |-> 473, var |-> "jpa_points", items |-> <<
      "JPA = Standard interface/specification (like a contract)",
      "Hibernate = Implementation of JPA (the actual implementation)",
      "Spring Data JPA = Wrapper around Hibernate that makes it even easier" >>],
     [op |-> "for", line |-> 478, list |-> "jpa_points", start |-> -1, n |-> 1],
     [op |-> "add_paragraph", line |-> 479, var |-> "", text |-> <<[k |-> "item", v |-> "point"]>>, style |-> "List Bullet"],
     [op |-> "endfor", line |-> 479, n |-> 1],
     [op |-> "add_heading", line |-> 481, text |-> <<[k |-> "lit", v |-> "Database Table Structure (Auto-generated)"]>>, level |-> 2],
     [op |-> "add_paragraph", line |-> 482, var |-> "", text |-> <<[k |-> "lit", v |-> "Your Product class creates this table in H2:"]>>, style |-> "None"],
     [op |-> "add_paragraph", line |-> 484, var |-> "table_sql", text |-> <<[k |-> "lit", v |-> "CREATE TABLE product (\n    id              INT PRIMARY KEY AUTO_INCREMENT,\n    name            VARCHAR(255),\n    desc            VARCHAR(255),\n    brand           VARCHAR(255),\n    price           DECIMAL(19,2),\n    category        VARCHAR(255),\n    release_date    TIMESTAMP,\n    available       BOOLEAN,\n    quantity        INT,\n    image_name      VARCHAR(255),\n    image_type      VARCHAR(255),\n    image_data      BLOB\n);"]>>, style |-> "List Bullet"],
     [op |-> "set_para_style_font", line |-> 501, var |-> "table_sql", attr |-> "name", val |-> "Courier New"],
     [op |-> "add_heading", line |-> 503, text |-> <<[k |-> "lit", v |-> "How:"]>>, level |-> 3],
     [op |-> "assign_list", line |-> 504, var |-> "how_points", items |-> <<
      "spring.jpa.hibernate.ddl-auto=update tells Hibernate to automatically create/update tables",
      "Field names map to column names (camelCase → snake_case)" >>],
     [op |-> "for", line |-> 508, list |-> "how_points", start |-> -1, n |-> 1],
     [op |-> "add_paragraph", line |-> 509, var |-> "", text |-> <<[k |-> "item", v |-> "point"]>>, style |-> "List Bullet"],
     [op |-> "endfor", line |-> 509, n |-> 1],
     [op |-> "add_page_break", line |-> 511] >>

\* Section7Stmts: src/create_word_doc.py lines 513-624
Section7Stmts ==
  << [op |-> "add_heading", line |-> 514, text |-> <<[k |-> "lit", v |-> "7. API Endpoints"]>>, level |-> 1],
     [op |-> "add_heading", line |-> 517, text |-> <<[k |-> "lit", v |-> "Endpoint 1: GET /api/products"]>>, level |-> 2],
     [op |-> "add_heading", line |-> 518, text |-> <<[k |-> "lit", v |-> "Purpose:"]>>, level |-> 3],
     [op |-> "add_paragraph", line |-> 519, var |-> "", text |-> <<[k |-> "lit", v |-> "Retrieve all products"]>>, style |-> "None"],
     [op |-> "add_heading", line |-> 521, text |-> <<[k |-> "lit", v |-> "Request:"]>>, level |-> 3],
     [op |-> "add_paragraph", line |-> 522, var |-> "req1", text |-> <<[k |-> "lit", v |-> "GET /api/products HTTP/1.1\nHost: localhost:8080"]>>, style |-> "None"],
     [op |-> "set_para_style_font", line |-> 523, var |-> "req1", attr |-> "name", val |-> "Courier New"],
     [op |-> "add_heading", line |-> 525, text |-> <<[k |-> "lit", v |-> "Response (HTTP 200 OK):"]>>, level |-> 3],
     [op |-> "add_paragraph", line |-> 526, var |-> "", text |-> <<[k |-> "lit", v |-> "Returns a JSON array of all products with their details (excluding imageData)"]>>, style |-> "None"],
     [op |-> "add_heading", line |-> 528, text |-> <<[k |-> "lit", v |-> "Backend Flow:"]>>, level |-> 3],
     [op |-> "assign_list", line |-> 529, var |-> "flow1", items |-> <<
      "Controller receives GET request",
      "Calls service.getAllProducts()",
      "Service calls repo.findAll()",
      "Repository generates: SELECT * FROM product",
      "Returns List<Product>",
      "Jackson converts to JSON",
      "Returns HTTP 200 OK with JSON body" >>],
     [op |-> "for", line |-> 538, list |-> "flow1", start |-> -1, n |-> 1],
     [op |-> "add_paragraph", line |-> 539, var |-> "", text |-> <<[k |-> "item", v |-> "f"]>>, style |-> "List Number"],
     [op |-> "endfor", line |-> 539, n |-> 1],
     [op |-> "add_heading", line |-> 542, text |-> <<[k |-> "lit", v |-> "Endpoint 2: GET /api/product/{id}"]>>, level |-> 2],
     [op |-> "add_heading", line |-> 543, text |-> <<[k |-> "lit", v |-> "Purpose:"]>>, level |-> 3],
     [op |-> "add_paragraph", line |-> 544, var |-> "", text |-> <<[k |-> "lit", v |-> "Retrieve a single product by ID"]>>, style |-> "None"],
     [op |-> "add_heading", line |-> 546, text |-> <<[k |-> "lit", v |-> "Request:"]>>, level |-> 3],
     [op |-> "add_paragraph", line |-> 547, var |-> "req2", text |-> <<[k |-> "lit", v |-> "GET /api/product/1 HTTP/1.1\nHost: localhost:8080"]>>, style |-> "None"],
     [op |-> "set_para_style_font", line |-> 548, var |-> "req2", attr |-> "name", val |-> "Courier New"],
     [op |-> "add_heading", line |-> 550, text |-> <<[k |-> "lit", v |-> "Response:"]>>, level |-> 3],
     [op |-> "add_paragraph", line |-> 551, var |-> "", text |-> <<[k |-> "lit", v |-> "HTTP 200 OK: Returns the product as JSON"]>>, style |-> "None"],
     [op |-> "add_paragraph", line |-> 552, var |-> "", text |-> <<[k |-> "lit", v |-> "HTTP 404 Not Found: If product does not exist"]>>, style |-> "None"],
     [op |-> "add_heading", line |-> 554, text |-> <<[k |-> "lit", v |-> "Backend Flow:"]>>, level |-> 3],
     [op |-> "assign_list", line |-> 555, var |-> "flow2", items |-> <<
      "@PathVariable int id extracts 1 from URL",
      "Controller calls service.getProductById(1)",
      "Service calls repo.findById(1)",
      "Repository generates: SELECT * FROM product WHERE id = 1",
      "If found: returns Product object → HTTP 200 OK",
      "If NOT found: returns null → HTTP 404 Not Found" >>],
     [op |-> "for", line |-> 563, list |-> "flow2", start |-> -1, n |-> 1],
     [op |-> "add_paragraph", line |-> 564, var |-> "", text |-> <<[k |-> "item", v |-> "f"]>>, style |-> "List Number"],
     [op |-> "endfor", line |-> 564, n |-> 1],
     [op |-> "add_heading", line |-> 567, text |-> <<[k |-> "lit", v |-> "Endpoint 3: POST /api/product"]>>, level |-> 2],
     [op |-> "add_heading", line |-> 568, text |-> <<[k |-> "lit", v |-> "Purpose:"]>>, level |-> 3],
     [op |-> "add_paragraph", line |-> 569, var |-> "", text |-> <<[k |-> "lit", v |-> "Add new product with image"]>>, style |-> "None"],
     [op |-> "add_heading", line |-> 571, text |-> <<[k |-> "lit", v |-> "Request:"]>>, level |-> 3],
     [op |-> "add_paragraph", line |-> 572, var |-> "req3", text |-> <<[k |-> "lit", v |-> "POST /api/product HTTP/1.1\nContent-Type: multipart/form-data\n\nFormData:\n- product: { \"name\": \"Laptop\", \"brand\": \"Dell\", \"price\": 79999.99, ... }\n- imageFile: <binary image data>"]>>, style |-> "None"],
     [op |-> "set_para_style_font", line |-> 579, var |-> "req3", attr |-> "name", val |-> "Courier New"],
     [op |-> "add_heading", line |-> 581, text |-> <<[k |-> "lit", v |-> "Response (HTTP 201 CREATED):"]>>, level |-> 3],
     [op |-> "add_paragraph", line |-> 582, var |-> "", text |-> <<[k |-> "lit", v |-> "Returns created product with auto-generated ID"]>>, style |-> "None"],
     [op |-> "add_heading", line |-> 584, text |-> <<[k |-> "lit", v |-> "Backend Flow:"]>>, level |-> 3],
     [op |-> "assign_list", line |-> 585, var |-> "flow3", items |-> <<
      "@RequestPart Product product deserializes JSON → Product object",
      "@RequestPart MultipartFile imageFile receives uploaded file",
      "Controller calls service.addProduct(product, imageFile)",
      "Service extracts image metadata and converts to bytes",
      "Service calls repo.save(product)",
      "Repository generates INSERT query",
      "Database assigns auto-generated ID",
      "Returns saved Product with ID",
      "HTTP 201 CREATED response" >>],
     [op |-> "for", line |-> 596, list |-> "flow3", start |-> -1, n |-> 1],
     [op |-> "add_paragraph", line |-> 597, var |-> "", text |-> <<[k |-> "item", v |-> "f"]>>, style |-> "List Number"],
     [op |-> "endfor", line |-> 597, n |-> 1],
     [op |-> "add_heading", line |-> 600, text |-> <<[k |-> "lit", v |-> "Endpoint 4: GET /api/product/{productId}/image"]>>, level |-> 2],
     [op |-> "add_heading", line |-> 601, text |-> <<[k |-> "lit", v |-> "Purpose:"]>>, level |-> 3],
     [op |-> "add_paragraph", line |-> 602, var |-> "", text |-> <<[k |-> "lit", v |-> "Download product image"]>>, style |-> "None"],
     [op |-> "add_heading", line |-> 604, text |-> <<[k |-> "lit", v |-> "Request:"]>>, level |-> 3],
     [op |-> "add_paragraph", line |-> 605, var |-> "req4", text |-> <<[k |-> "lit", v |-> "GET /api/product/1/image HTTP/1.1\nHost: localhost:8080"]>>, style |-> "None"],
     [op |-> "set_para_style_font", line |-> 606, var |-> "req4", attr |-> "name", val |-> "Courier New"],
     [op |-> "add_heading", line |-> 608, text |-> <<[k |-> "lit", v |-> "Response (HTTP 200 OK):"]>>, level |-> 3],
     [op |-> "add_paragraph", line |-> 609, var |-> "", text |-> <<[k |-> "lit", v |-> "Binary image data with appropriate Content-Type header"]>>, style |-> "None"],
     [op |-> "add_heading", line |-> 611, text |-> <<[k |-> "lit", v |-> "Backend Flow:"]>>, level |-> 3],
     [op |-> "assign_list", line |-> 612, var |-> "flow4", items |-> <<
      "@PathVariable int productId extracts 1 from URL",
      "Controller calls service.getProductById(1)",
      "Service queries database",
      "Controller extracts: product.getImageData() (byte array)",
      "Controller sets HTTP response header: Content-Type: image/jpeg",
      "Returns binary data",
      "Browser displays/downloads image" >>],
     [op |-> "for", line |-> 621, list |-> "flow4", start |-> -1, n |-> 1],
     [op |-> "add_paragraph", line |-> 622, var |-> "", text |-> <<[k |-> "item", v |-> "f"]>>, style |-> "List Number"],
     [op |-> "endfor", line |-> 622, n |-> 1],
     [op |-> "add_page_break", line |-> 624] >>

\* Section8Stmts: src/create_word_doc.py lines 626-697
Section8Stmts ==
  << [op |-> "add_heading", line |-> 627, text |-> <<[k |-> "lit", v |-> "8. Request-Response Lifecycle"]>>, level |-> 1],
     [op |-> "add_heading", line |-> 629, text |-> <<[k |-> "lit", v |-> "Complete Lifecycle Example: Create Product with Image"]>>, level |-> 2],
     [op |-> "assign_list", line |-> 631, var |-> "lifecycle_steps", items |-> <<
      [step |-> "CLIENT Sends Request", details |-> "User sends POST /api/product with FormData (product JSON + image file)"],
      [step |-> "Spring Web Server (Tomcat) Receives Request", details |-> "Tomcat identifies HTTP Method (POST), URL (/api/product), and body (Multipart form data)"],
      [step |-> "Spring Dispatcher Maps to Controller", details |-> "Spring finds @PostMapping(\"/product\") in ProductController"],
      [step |-> "Multipart Parser Extracts Data", details |-> "Extracts \"product\" field (JSON deserized to Product object) and \"imageFile\" field (MultipartFile wrapper)"],
      [step |-> "Controller Method Executes", details |-> "ProductController.addProduct(Product, MultipartFile) calls service.addProduct(product, imageFile)"],
      [step |-> "Service Layer - Business Logic", details |-> "Extracts filename, content-type, and bytes from file. Sets these on Product. Calls repo.save(product)"],
      [step |-> "Repository Layer - Database Access", details |-> "Hibernate generates: INSERT INTO product (name, brand, price, image_name, image_type, image_data, ...) VALUES (...)"],
      [step |-> "Database Execution", details |-> "H2 executes INSERT, auto-generates ID, stores row, returns success"],
      [step |-> "Return Data to Service", details |-> "Hibernate converts database row to Product Java object with auto-generated ID"],
      [step |-> "Service Returns to Controller", details |-> "Service returns Product { id: 1, name: \"Laptop\", brand: \"Dell\", ... }"],
      [step |-> "Controller Wraps Response", details |-> "Controller returns ResponseEntity.status(201).body(savedProduct). HTTP Status: 201 CREATED"],
      [step |-> "Jackson Serializes to JSON", details |-> "Jackson converts Product object to JSON (imageData excluded by @JsonIgnore)"],
      [step |-> "HTTP Response Sent to Client", details |-> "HTTP/1.1 201 Created with JSON body"],
      [step |-> "Client Receives Response", details |-> "Frontend receives HTTP Status 201 with created product data"] >>],
     [op |-> "for", line |-> 690, list |-> "lifecycle_steps", start |-> 1, n |-> 5],
     [op |-> "add_paragraph", line |-> 691, var |-> "p", text |-> <<>>, style |-> "None"],
     [op |-> "add_run", line |-> 692, para |-> "p", var |-> "p_run", text |-> <<[k |-> "lit", v |-> "Step "], [k |-> "num", v |-> "num"], [k |-> "lit", v |-> ": "], [k |-> "key", v |-> "step"]>>, bold |-> FALSE],
     [op |-> "set_run", line |-> 693, var |-> "p_run", attr |-> "bold", val |-> TRUE],
     [op |-> "set_run", line |-> 694, var |-> "p_run", attr |-> "size", val |-> 12],
     [op |-> "add_paragraph", line |-> 695, var |-> "", text |-> <<[k |-> "key", v |-> "details"]>>, style |-> "List Bullet"],
     [op |-> "endfor", line |-> 695, n |-> 5],
     [op |-> "add_page_break", line |-> 697] >>

\* SummaryStmts: src/create_word_doc.py lines 699-748
SummaryStmts ==
  << [op |-> "add_heading", line |-> 700, text |-> <<[k |-> "lit", v |-> "Summary: How Everything Works Together"]>>, level |-> 1],
     [op |-> "add_heading", line |-> 702, text |-> <<[k |-> "lit", v |-> "Request Path (What happens when you call an API):"]>>, level |-> 2],
     [op |-> "assign_list", line |-> 704, var |-> "request_path", items |-> <<
      "HTTP Request",
      "Tomcat (Web Server)",
      "Spring Dispatcher (Router)",
      "Controller (Request Handler)",
      "Service (Business Logic)",
      "Repository (Database Access)",
      "Hibernate (ORM - Object to SQL)",
      "H2 Database (SQL Execution & Storage)",
      "[Data returned back up the chain]",
      "Jackson (Object to JSON)",
      "HTTP Response",
      "Client (Browser/App)" >>],
     [op |-> "for", line |-> 719, list |-> "request_path", start |-> -1, n |-> 4],
     [op |-> "if_startswith", line |-> 720, text |-> <<[k |-> "item", v |-> "path"]>>, prefix |-> "[", n |-> 1],
     [op |-> "add_paragraph", line |-> 721, var |-> "", text |-> <<[k |-> "item", v |-> "path"]>>, style |-> "List Bullet"],
     [op |-> "else", line |-> 722, n |-> 1],
     [op |-> "add_paragraph", line |-> 723, var |-> "", text |-> <<[k |-> "item", v |-> "path"]>>, style |-> "List Bullet"],
     [op |-> "endfor", line |-> 723, n |-> 4],
     [op |-> "add_heading", line |-> 725, text |-> <<[k |-> "lit", v |-> "Key Concepts Recap:"]>>, level |-> 2],
     [op |-> "assign_list", line |-> 727, var |-> "concepts", items |-> <<
      <<"@RestController", "Handles REST requests">>,
      <<"@RequestMapping", "URL prefix">>,
      <<"@GetMapping/@PostMapping", "HTTP method + URL routing">>,
      <<"@Autowired", "Dependency Injection (automatic wiring)">>,
      <<"@Entity", "Database table">>,
      <<"@Id @GeneratedValue", "Primary Key with auto-increment">>,
      <<"@Lob", "Large binary data (images)">>,
      <<"@Lazy", "Load data only when needed">>,
      <<"@JsonIgnore", "Don't include in JSON response">>,
      <<"JpaRepository", "Pre-built database access methods">>,
      <<"Service", "Business logic layer">>,
      <<"DTO", "Data Transfer Object (if needed for specific responses)">> >>],
     [op |-> "for", line |-> 742, list |-> "concepts", start |-> -1, n |-> 4],
     [op |-> "add_paragraph", line |-> 743, var |-> "p", text |-> <<>>, style |-> "None"],
     [op |-> "add_run", line |-> 744, para |-> "p", var |-> "p_run", text |-> <<[k |-> "elem", v |-> 0]>>, bold |-> FALSE],
     [op |-> "set_run", line |-> 745, var |-> "p_run", attr |-> "bold", val |-> TRUE],
     [op |-> "add_run", line |-> 746, para |-> "p", var |-> "", text |-> <<[k |-> "lit", v |-> " = "], [k |-> "elem", v |-> 1]>>, bold |-> FALSE],
     [op |-> "endfor", line |-> 746, n |-> 4],
     [op |-> "add_page_break", line |-> 748] >>

\* NextStepsStmts: src/create_word_doc.py lines 750-775
NextStepsStmts ==
  << [op |-> "add_heading", line |-> 751, text |-> <<[k |-> "lit", v |-> "Next Steps for Learning"]>>, level |-> 1],
     [op |-> "add_paragraph", line |-> 752, var |-> "", text |-> <<[k |-> "lit", v |-> "Now that you understand the architecture, you can enhance your project by implementing:"]>>, style |-> "None"],
     [op |-> "assign_list", line |-> 754, var |-> "next_steps", items |-> <<
      "Add a DELETE endpoint (@DeleteMapping) to remove products",
      "Add an UPDATE endpoint (@PutMapping) to modify products",
      "Add custom search methods in ProductRepo to find products by category/brand",
      "Add category filter to getAllProducts for advanced filtering",
      "Implement pagination using Page<Product> instead of List<Product>",
      "Add data validation using @Valid and validation annotations",
      "Create custom exceptions and error handlers for better error management",
      "Add unit tests for service and controller methods",
      "Implement role-based access control (authentication & authorization)",
      "Add API documentation using Swagger/SpringFox" >>],
     [op |-> "for", line |-> 767, list |-> "next_steps", start |-> 1, n |-> 1],
     [op |-> "add_paragraph", line |-> 768, var |-> "", text |-> <<[k |-> "item", v |-> "step"]>>, style |-> "List Number"],
     [op |-> "endfor", line |-> 768, n |-> 1],
     [op |-> "add_paragraph", line |-> 771, var |-> "final_note", text |-> <<>>, style |-> "None"],
     [op |-> "add_run", line |-> 772, para |-> "final_note", var |-> "final_note_run", text |-> <<[k |-> "lit", v |-> "Your project is now ready for these enhancements!"]>>, bold |-> FALSE],
     [op |-> "set_run", line |-> 773, var |-> "final_note_run", attr |-> "bold", val |-> TRUE],
     [op |-> "set_run", line |-> 774, var |-> "final_note_run", attr |-> "size", val |-> 12],
     [op |-> "set_run", line |-> 775, var |-> "final_note_run", attr |-> "color", val |-> <<0, 102, 0>>] >>

\* Variant of SaveStmts: a paragraph is appended after the save.
SaveStmtsThenParagraph ==
  << [op |-> "assign_str", line |-> 778, var |-> "output_path", val |-> "C:\\Users\\z00542kh\\Desktop\\ecom-proj\\Spring_Boot_Architecture_Guide.docx"],
     [op |-> "save", line |-> 779, arg |-> "output_path"],
     [op |-> "add_paragraph", line |-> 780, var |-> "", text |-> <<>>, style |-> "None"],
     [op |-> "print", line |-> 781, text |-> <<[k |-> "lit", v |-> "Word document created successfully!"]>>],
     [op |-> "print", line |-> 782, text |-> <<[k |-> "lit", v |-> "Location: "], [k |-> "path", v |-> "output_path"]>>] >>

\* Variant of SaveStmts: the first confirmation line is printed before the
\* save.
SaveStmtsPrintFirst ==
  << [op |-> "assign_str", line |-> 778, var |-> "output_path", val |-> "C:\\Users\\z00542kh\\Desktop\\ecom-proj\\Spring_Boot_Architecture_Guide.docx"],
     [op |-> "print", line |-> 781, text |-> <<[k |-> "lit", v |-> "Word document created successfully!"]>>],
     [op |-> "save", line |-> 779, arg |-> "output_path"],
     [op |-> "print", line |-> 782, text |-> <<[k |-> "lit", v |-> "Location: "], [k |-> "path", v |-> "output_path"]>>] >>

\* SaveStmts: src/create_word_doc.py lines 777-782
SaveStmts ==
  << [op |-> "assign_str", line |-> 778, var |-> "output_path", val |-> "C:\\Users\\z00542kh\\Desktop\\ecom-proj\\Spring_Boot_Architecture_Guide.docx"],
     [op |-> "save", line |-> 779, arg |-> "output_path"],
     [op |-> "print", line |-> 781, text |-> <<[k |-> "lit", v |-> "Word document created successfully!"]>>],
     [op |-> "print", line |-> 782, text |-> <<[k |-> "lit", v |-> "Location: "], [k |-> "path", v |-> "output_path"]>>] >>

\* Variant of Script: sections 3 and 4 in the wrong order.
ScriptSections4Before3 ==
  SetupStmts
  \o TitleStmts
  \o TocStmts
  \o Section1Stmts
  \o Section2Stmts
  \o Section4Stmts
  \o Section3Stmts
  \o Section5Stmts
  \o Section6Stmts
  \o Section7Stmts
  \o Section8Stmts
  \o SummaryStmts
  \o NextStepsStmts
  \o SaveStmts

\* Variant of Script: the page break that ends section 3 is missing.
ScriptNoBreakAfterSection3 ==
  SetupStmts
  \o TitleStmts
  \o TocStmts
  \o Section1Stmts
  \o Section2Stmts
  \o SubSeq(Section3Stmts, 1, Len(Section3Stmts) - 1)
  \o Section4Stmts
  \o Section5Stmts
  \o Section6Stmts
  \o Section7Stmts
  \o Section8Stmts
  \o SummaryStmts
  \o NextStepsStmts
  \o SaveStmts

Script ==
  SetupStmts
  \o TitleStmts
  \o TocStmts
  \o Section1Stmts
  \o Section2Stmts
  \o Section3Stmts
  \o Section4Stmts
  \o Section5Stmts
  \o Section6Stmts
  \o Section7Stmts
  \o Section8Stmts
  \o SummaryStmts
  \o NextStepsStmts
  \o SaveStmts

(***************************************************************************)
(* State                                                                   *)
(***************************************************************************)
VARIABLES
  pc,           \* index in Script of the statement executed next
  status,       \* "running", "done" (script ran to its end) or "failed"
  error,        \* "none", or how doc.save failed: "open" / "write"
  doc,          \* the document body: the sequence of blocks
  styles,       \* the document's styles: style name -> font
  svars,        \* the variables style and font: the style they refer to
  pvars,        \* paragraph variables: index of the block they refer to
  rvars,        \* run variables: <<block, run>> they refer to
  tvars,        \* table variables: index of the block they refer to
  lists,        \* list variables: their value
  iter,         \* the iterator of the running for loop
  output_path,  \* the variable output_path
  stdout,       \* the lines printed so far
  fs,           \* the file system: path -> file
  clock,        \* the wall clock
  run,          \* number of the current run of the script
  calls,        \* history: the content operations called in this run
  saves,        \* history: how many times this run called doc.save
  fs0,          \* history: the file system when this run started
  prev          \* history: how the previous run ended

vars == << pc, status, error, doc, styles, svars, pvars, rvars, tvars, lists,
           iter, output_path, stdout, fs, clock, run, calls, saves, fs0, prev >>

Stmts(o) == { i \in 1..Len(Script) : Script[i].op = o }

ParaVars == { Script[i].var : i \in Stmts("add_paragraph") } \ {""}
RunVars == { Script[i].var : i \in Stmts("add_run") } \ {""}
TableVars == { Script[i].var : i \in Stmts("add_table") }
ListVars == { Script[i].var : i \in Stmts("assign_list") }
StyleVars == { Script[i].var : i \in Stmts("bind_style") \cup Stmts("bind_font") }

\* The path the script assigns to output_path, and another path of the
\* same file system.
OutputPath == Script[CHOOSE i \in Stmts("assign_str") : TRUE].val
OtherPath == "C:\\Users\\z00542kh\\Desktop\\ecom-proj\\notes.txt"
Paths == {OutputPath, OtherPath}

\* The styles of python-docx's default template the script uses.  The
\* template sets no font on them (font.name and font.size are None).
StyleNames == {"Normal", "List Bullet", "List Number",
               "Heading 1", "Heading 2", "Heading 3", "Light Grid Accent 1"}
NoFont == [name |-> "None", size |-> 0]
DefaultStyles == [s \in StyleNames |-> NoFont]

\* Files.  A .docx is a zip archive: the document parts, each member
\* stamped with the time it was written.
Absent == [kind |-> "absent"]
Foreign == [kind |-> "foreign"]
Partial == [kind |-> "partial"]
Serialize(d, st, t) == [kind |-> "docx", blocks |-> d, styles |-> st, stamp |-> t]

NoIter == [list |-> "", idx |-> 0, start |-> -1]
NoPrev == [status |-> "none", file |-> Absent]

(***************************************************************************)
(* Blocks and the python-docx operations on them                           *)
(***************************************************************************)
Block(kind, text, style, level) ==
  [kind |-> kind, text |-> text, style |-> style, level |-> level,
   align |-> "None", runs |-> <<>>, cells |-> <<>>, tstyle |-> "None"]

Run(text, bold) ==
  [text |-> text, bold |-> bold, italic |-> FALSE, size |-> 0, color |-> <<>>]

HeadingStyle(level) == "Heading " \o ToString(level)

\* Variant of add_paragraph: a paragraph equal to one already in the
\* document is not appended again.
add_paragraph_dedup(d, text, style) ==
  IF \E i \in 1..Len(d) : d[i] = Block("paragraph", text, style, 0)
    THEN d
    ELSE Append(d, Block("paragraph", text, style, 0))

\* doc.add_paragraph(text='', style=None)
add_paragraph(d, text, style) == Append(d, Block("paragraph", text, style, 0))

\* doc.add_heading(text, level)
add_heading(d, text, level) ==
  Append(d, Block("heading", text, HeadingStyle(level), level))

\* doc.add_page_break()
add_page_break(d) == Append(d, Block("page_break", "", "None", 0))

\* doc.add_table(rows, cols): a grid of empty cells
add_table(d, rows, cols) ==
  Append(d, [Block("table", "", "None", 0) EXCEPT
               !.cells = [r \in 1..rows |-> [c \in 1..cols |-> ""]]])

\* Variant of set_cell_text: the column index is ignored, every text goes
\* to column 0 of its row.
set_cell_text_col0(d, b, row, col, val) ==
  [d EXCEPT ![b].cells[row + 1][1] = val]

\* Variant of set_cell_text: row and column are taken as counted from 1.
set_cell_text_from1(d, b, row, col, val) ==
  IF row \in 1..Len(d[b].cells) /\ col \in 1..Len(d[b].cells[row])
    THEN [d EXCEPT ![b].cells[row][col] = val]
    ELSE d

\* table.rows[row].cells[col].text = val  (Python indexes from 0)
set_cell_text(d, b, row, col, val) ==
  [d EXCEPT ![b].cells[row + 1][col + 1] = val]

\* paragraph.add_run(text): the run is appended to the paragraph's runs
add_run(d, b, text, bold) == [d EXCEPT ![b].runs = Append(@, Run(text, bold))]

\* paragraph.style: the paragraph's style, the default paragraph style
\* ('Normal') when the paragraph was given none
StyleOf(b) == IF b.style = "None" THEN "Normal" ELSE b.style

\* str.startswith(prefix)
StartsWith(s, prefix) ==
  /\ Len(s) >= Len(prefix)
  /\ SubSeq(s, 1, Len(prefix)) = prefix

(***************************************************************************)
(* Evaluation of the statement under pc                                    *)
(***************************************************************************)
Cur == Script[pc]
Running == status = "running" /\ pc \in 1..Len(Script)
At(o) == Running /\ Cur.op = o

\* The loop variable and the enumerate counter of the running loop.
Item == lists[iter.list][iter.idx]
Num == iter.start + iter.idx - 1

EvalPart(p) ==
  CASE p.k = "lit" -> p.v
    [] p.k = "item" -> Item
    [] p.k = "key" -> Item[p.v]
    [] p.k = "elem" -> Item[p.v + 1]
    [] p.k = "num" -> ToString(Num)
    [] p.k = "path" -> output_path

RECURSIVE Eval(_)
Eval(parts) ==
  IF parts = <<>> THEN "" ELSE EvalPart(Head(parts)) \o Eval(Tail(parts))

Bind(f, v, x) == IF v = "" THEN f ELSE [f EXCEPT ![v] = x]

\* Control passes to statement p; past the last statement the process exits.
Goto(p) ==
  /\ pc' = p
  /\ status' = IF p > Len(Script) THEN "done" ELSE "running"

Step == Goto(pc + 1)

Env == << fs, clock, run, fs0, prev >>
Mem == << doc, styles, svars, pvars, rvars, tvars, lists, iter, output_path >>
Hist == << calls, saves >>

(***************************************************************************)
(* Init: a fresh process about to execute the first statement.  The output *)
(* path holds nothing or an older file.                                    *)
(***************************************************************************)
FreshMem ==
  /\ pc = 1
  /\ status = "running"
  /\ error = "none"
  /\ doc = <<>>
  /\ styles = DefaultStyles
  /\ svars = [v \in StyleVars |-> ""]
  /\ pvars = [v \in ParaVars |-> 0]
  /\ rvars = [v \in RunVars |-> <<0, 0>>]
  /\ tvars = [v \in TableVars |-> 0]
  /\ lists = [v \in ListVars |-> <<>>]
  /\ iter = NoIter
  /\ output_path = ""
  /\ stdout = <<>>
  /\ calls = <<>>
  /\ saves = 0

Init ==
  /\ FreshMem
  /\ \E f \in {Absent, Foreign, Serialize(<<>>, DefaultStyles, 0)} :
       fs = [p \in Paths |-> IF p = OutputPath THEN f ELSE Foreign]
  /\ clock = 0
  /\ run = 1
  /\ fs0 = fs
  /\ prev = NoPrev

(***************************************************************************)
(* One action per kind of statement                                        *)
(***************************************************************************)
\* doc = Document()
NewDocument ==
  /\ At("Document")
  /\ doc' = <<>>
  /\ styles' = DefaultStyles
  /\ Step
  /\ UNCHANGED << error, svars, pvars, rvars, tvars, lists, iter, output_path,
                  stdout, Env, Hist >>

\* style = doc.styles['Normal']
BindStyle ==
  /\ At("bind_style")
  /\ svars' = [svars EXCEPT ![Cur.var] = Cur.style]
  /\ Step
  /\ UNCHANGED << error, doc, styles, pvars, rvars, tvars, lists, iter,
                  output_path, stdout, Env, Hist >>

\* font = style.font
BindFont ==
  /\ At("bind_font")
  /\ svars' = [svars EXCEPT ![Cur.var] = svars[Cur.of]]
  /\ Step
  /\ UNCHANGED << error, doc, styles, pvars, rvars, tvars, lists, iter,
                  output_path, stdout, Env, Hist >>

\* font.name = ... / font.size = Pt(...)
SetFont ==
  /\ At("set_font")
  /\ styles' = [styles EXCEPT ![svars[Cur.var]][Cur.attr] = Cur.val]
  /\ Step
  /\ UNCHANGED << error, doc, svars, pvars, rvars, tvars, lists, iter,
                  output_path, stdout, Env, Hist >>

\* Variant of AddParagraph: inside a loop, the statement also appends the
\* item to the list being iterated over.
AddParagraphGrowsList ==
  /\ At("add_paragraph")
  /\ LET text == Eval(Cur.text) IN
       /\ doc' = add_paragraph(doc, text, Cur.style)
       /\ calls' = Append(calls, [op |-> Cur.op, text |-> text, style |-> Cur.style, level |-> 0])
  /\ pvars' = Bind(pvars, Cur.var, Len(doc'))
  /\ lists' = IF iter.list = "" THEN lists
              ELSE [lists EXCEPT ![iter.list] = Append(@, Item)]
  /\ Step
  /\ UNCHANGED << error, styles, svars, rvars, tvars, iter, output_path,
                  stdout, Env, saves >>

\* [var =] doc.add_paragraph([text][, style=...])
AddParagraph ==
  /\ At("add_paragraph")
  /\ LET text == Eval(Cur.text) IN
       /\ doc' = add_paragraph(doc, text, Cur.style)
       /\ calls' = Append(calls, [op |-> Cur.op, text |-> text, style |-> Cur.style, level |-> 0])
  /\ pvars' = Bind(pvars, Cur.var, Len(doc'))
  /\ Step
  /\ UNCHANGED << error, styles, svars, rvars, tvars, lists, iter, output_path,
                  stdout, Env, saves >>

\* doc.add_heading(text, level=...)
AddHeading ==
  /\ At("add_heading")
  /\ LET text == Eval(Cur.text) IN
       /\ doc' = add_heading(doc, text, Cur.level)
       /\ calls' = Append(calls, [op |-> Cur.op, text |-> text,
                                  style |-> HeadingStyle(Cur.level), level |-> Cur.level])
  /\ Step
  /\ UNCHANGED << error, styles, svars, pvars, rvars, tvars, lists, iter,
                  output_path, stdout, Env, saves >>

\* doc.add_page_break()
AddPageBreak ==
  /\ At("add_page_break")
  /\ doc' = add_page_break(doc)
  /\ calls' = Append(calls, [op |-> Cur.op, text |-> "", style |-> "None", level |-> 0])
  /\ Step
  /\ UNCHANGED << error, styles, svars, pvars, rvars, tvars, lists, iter,
                  output_path, stdout, Env, saves >>

\* table = doc.add_table(rows=..., cols=...)
AddTable ==
  /\ At("add_table")
  /\ doc' = add_table(doc, Cur.rows, Cur.cols)
  /\ calls' = Append(calls, [op |-> Cur.op, text |-> "", style |-> "None", level |-> 0])
  /\ tvars' = [tvars EXCEPT ![Cur.var] = Len(doc')]
  /\ Step
  /\ UNCHANGED << error, styles, svars, pvars, rvars, lists, iter, output_path,
                  stdout, Env, saves >>

\* table.style = ...
SetTableStyle ==
  /\ At("set_table_style")
  /\ doc' = [doc EXCEPT ![tvars[Cur.var]].tstyle = Cur.val]
  /\ Step
  /\ UNCHANGED << error, styles, svars, pvars, rvars, tvars, lists, iter,
                  output_path, stdout, Env, Hist >>

\* table.rows[r].cells[c].text = ...
SetCellText ==
  /\ At("set_cell_text")
  /\ doc' = set_cell_text(doc, tvars[Cur.var], Cur.row, Cur.col, Cur.val)
  /\ Step
  /\ UNCHANGED << error, styles, svars, pvars, rvars, tvars, lists, iter,
                  output_path, stdout, Env, Hist >>

\* [var =] para.add_run(text)   and   para.add_run(text).font.bold = True
AddRun ==
  /\ At("add_run")
  /\ doc' = add_run(doc, pvars[Cur.para], Eval(Cur.text), Cur.bold)
  /\ rvars' = Bind(rvars, Cur.var,
                   << pvars[Cur.para], Len(doc'[pvars[Cur.para]].runs) >>)
  /\ Step
  /\ UNCHANGED << error, styles, svars, pvars, tvars, lists, iter, output_path,
                  stdout, Env, Hist >>

\* run.font.size = Pt(..) / run.font.bold = True / run.bold = True /
\* run.font.italic = True / run.font.color.rgb = RGBColor(..)
SetRun ==
  /\ At("set_run")
  /\ LET r == rvars[Cur.var] IN
       doc' = [doc EXCEPT ![r[1]].runs[r[2]][Cur.attr] = Cur.val]
  /\ Step
  /\ UNCHANGED << error, styles, svars, pvars, rvars, tvars, lists, iter,
                  output_path, stdout, Env, Hist >>

\* para.alignment = WD_ALIGN_PARAGRAPH.CENTER
SetAlignment ==
  /\ At("set_alignment")
  /\ doc' = [doc EXCEPT ![pvars[Cur.var]].align = Cur.val]
  /\ Step
  /\ UNCHANGED << error, styles, svars, pvars, rvars, tvars, lists, iter,
                  output_path, stdout, Env, Hist >>

\* para.style.font.name = ...: para.style is the style object of the
\* document, so the assignment changes the style, not the paragraph
SetParaStyleFont ==
  /\ At("set_para_style_font")
  /\ styles' = [styles EXCEPT ![StyleOf(doc[pvars[Cur.var]])][Cur.attr] = Cur.val]
  /\ Step
  /\ UNCHANGED << error, doc, svars, pvars, rvars, tvars, lists, iter,
                  output_path, stdout, Env, Hist >>

\* name = [ ... ]
AssignList ==
  /\ At("assign_list")
  /\ lists' = [lists EXCEPT ![Cur.var] = Cur.items]
  /\ Step
  /\ UNCHANGED << error, doc, styles, svars, pvars, rvars, tvars, iter,
                  output_path, stdout, Env, Hist >>

\* for ... in list / enumerate(list, start): the next item, if any
ForIterate ==
  /\ At("for")
  /\ LET idx == IF iter.list = Cur.list THEN iter.idx ELSE 0 IN
       /\ idx < Len(lists[Cur.list])
       /\ iter' = [list |-> Cur.list, idx |-> idx + 1, start |-> Cur.start]
  /\ Step
  /\ UNCHANGED << error, doc, styles, svars, pvars, rvars, tvars, lists,
                  output_path, stdout, Env, Hist >>

\* the list is exhausted: control passes behind the loop body
ForExit ==
  /\ At("for")
  /\ LET idx == IF iter.list = Cur.list THEN iter.idx ELSE 0 IN
       idx >= Len(lists[Cur.list])
  /\ iter' = NoIter
  /\ Goto(pc + Cur.n + 2)
  /\ UNCHANGED << error, doc, styles, svars, pvars, rvars, tvars, lists,
                  output_path, stdout, Env, Hist >>

\* end of the loop body: back to the loop header
EndFor ==
  /\ At("endfor")
  /\ Goto(pc - Cur.n - 1)
  /\ UNCHANGED << error, Mem, stdout, Env, Hist >>

\* A conditional that drops the entries it tests positive for.
IfStartsWithSkipsEntry ==
  /\ At("if_startswith")
  /\ IF StartsWith(Eval(Cur.text), Cur.prefix)
       THEN Goto(pc + Cur.n + 2 + Script[pc + Cur.n + 1].n)
       ELSE Goto(pc + Cur.n + 2)
  /\ UNCHANGED << error, Mem, stdout, Env, Hist >>

\* if path.startswith('['):
IfStartsWith ==
  /\ At("if_startswith")
  /\ IF StartsWith(Eval(Cur.text), Cur.prefix)
       THEN Step
       ELSE Goto(pc + Cur.n + 2)
  /\ UNCHANGED << error, Mem, stdout, Env, Hist >>

\* else: reached at the end of the then-branch, which skips the else-branch
Else ==
  /\ At("else")
  /\ Goto(pc + Cur.n + 1)
  /\ UNCHANGED << error, Mem, stdout, Env, Hist >>

\* output_path = r'...'
AssignStr ==
  /\ At("assign_str")
  /\ output_path' = Cur.val
  /\ Step
  /\ UNCHANGED << error, doc, styles, svars, pvars, rvars, tvars, lists, iter,
                  stdout, Env, Hist >>

\* doc.save(output_path): the package is written as a zip archive opened
\* on the path for writing, each member stamped with the current time
SaveOk ==
  /\ At("save")
  /\ \E t \in clock..MaxClock :
       /\ clock' = t
       /\ fs' = [fs EXCEPT ![output_path] = Serialize(doc, styles, t)]
  /\ saves' = saves + 1
  /\ Step
  /\ UNCHANGED << error, Mem, stdout, run, fs0, prev, calls >>

\* Variant of SaveOpenError: the failing save removes the file that was at
\* the path.
SaveOpenErrorRemovesFile ==
  /\ At("save")
  /\ saves' = saves + 1
  /\ fs' = [fs EXCEPT ![output_path] = Absent]
  /\ status' = "failed"
  /\ error' = "open"
  /\ UNCHANGED << pc, Mem, stdout, clock, run, fs0, prev, calls >>

\* doc.save: the path cannot be opened for writing (missing directory,
\* no permission, locked file); the error ends the process
SaveOpenError ==
  /\ At("save")
  /\ saves' = saves + 1
  /\ status' = "failed"
  /\ error' = "open"
  /\ UNCHANGED << pc, Mem, stdout, Env, calls >>

\* doc.save: the file was opened (and truncated) and a later write fails
\* (disk full); the error ends the process, nothing cleans the file up
SaveWriteError ==
  /\ At("save")
  /\ saves' = saves + 1
  /\ fs' = [fs EXCEPT ![output_path] = Partial]
  /\ status' = "failed"
  /\ error' = "write"
  /\ UNCHANGED << pc, Mem, stdout, clock, run, fs0, prev, calls >>

\* print(f"...")
PrintLine ==
  /\ At("print")
  /\ stdout' = Append(stdout, Eval(Cur.text))
  /\ Step
  /\ UNCHANGED << error, Mem, Env, Hist >>

\* The script is run again: a new process, the same file system.
Rerun ==
  /\ status \in {"done", "failed"}
  /\ run < MaxRuns
  /\ run' = run + 1
  /\ prev' = [status |-> status, file |-> fs[OutputPath]]
  /\ fs0' = fs
  /\ pc' = 1
  /\ status' = "running"
  /\ error' = "none"
  /\ doc' = <<>>
  /\ styles' = DefaultStyles
  /\ svars' = [v \in StyleVars |-> ""]
  /\ pvars' = [v \in ParaVars |-> 0]
  /\ rvars' = [v \in RunVars |-> <<0, 0>>]
  /\ tvars' = [v \in TableVars |-> 0]
  /\ lists' = [v \in ListVars |-> <<>>]
  /\ iter' = NoIter
  /\ output_path' = ""
  /\ stdout' = <<>>
  /\ calls' = <<>>
  /\ saves' = 0
  /\ UNCHANGED << fs, clock >>

Next ==
  \/ NewDocument \/ BindStyle \/ BindFont \/ SetFont
  \/ AddParagraph \/ AddHeading \/ AddPageBreak
  \/ AddTable \/ SetTableStyle \/ SetCellText
  \/ AddRun \/ SetRun \/ SetAlignment \/ SetParaStyleFont
  \/ AssignList \/ ForIterate \/ ForExit \/ EndFor
  \/ IfStartsWith \/ Else
  \/ AssignStr \/ SaveOk \/ SaveOpenError \/ SaveWriteError \/ PrintLine
  \/ Rerun

Spec == Init /\ [][Next]_vars

TypeOK ==
  /\ pc \in 1..(Len(Script) + 1)
  /\ status \in {"running", "done", "failed"}
  /\ run \in 1..MaxRuns
  /\ clock \in 0..MaxClock
  /\ Len(doc) = Len(calls)

(***************************************************************************)
(* Properties                                                              *)
(***************************************************************************)
\* doc.save of this run has returned without error.
SavedOk == saves = 1 /\ error = "none"
\* The blocks of the file at the output path.
SavedDoc == fs[OutputPath].blocks

\* What a block is, apart from what is added to it after it was appended
\* (its runs, alignment, cell texts): the operation that made it and the
\* operation's arguments.
Ident(b) ==
  [op |-> "add_" \o b.kind, text |-> b.text, style |-> b.style, level |-> b.level]
Idents(d) == [i \in 1..Len(d) |-> Ident(d[i])]
Count(d, id) == Cardinality({ i \in 1..Len(d) : Ident(d[i]) = id })

HeadingId(text, level) ==
  [op |-> "add_heading", text |-> text, style |-> HeadingStyle(level), level |-> level]
BulletId(text) ==
  [op |-> "add_paragraph", text |-> text, style |-> "List Bullet", level |-> 0]

\* C1: the document is append-only.  At every step the blocks are exactly
\* the content operations called so far, in call order; a step of the run
\* leaves every block already appended where it is (the sequence built so
\* far is a prefix of every later one); and the saved file holds the blocks
\* in call order, nothing removed, merged or deduplicated: the 9 'Purpose:'
\* headings, the 4 'Backend Flow:' headings and the 4 '↓' bullets are all
\* there as separate blocks.
C1_AppendOnly ==
  /\ [](Idents(doc) = calls)
  /\ [][run' = run =>
          /\ Len(doc') >= Len(doc)
          /\ \A i \in 1..Len(doc) : Ident(doc'[i]) = Ident(doc[i])]_vars
  /\ [](SavedOk =>
          /\ Idents(SavedDoc) = calls
          /\ Count(SavedDoc, HeadingId("Purpose:", 3)) = 9
          /\ Count(SavedDoc, HeadingId("Backend Flow:", 3)) = 4
          /\ Count(SavedDoc, BulletId("↓")) = 4)

\* C1 witness: a run has saved a document in which repeated blocks occur.
C1_Witness ==
  /\ status = "done"
  /\ SavedOk
  /\ Count(SavedDoc, BulletId("↓")) = 4
  /\ Len(SavedDoc) = Len(calls)

IsHeading(b, level) == b.kind = "heading" /\ b.level = level
IsBullet(b) == b.kind = "paragraph" /\ b.style = "List Bullet"

\* The texts of the level-1 headings of d, in document order.
H1Texts(d) ==
  LET h == SelectSeq(d, LAMBDA b : IsHeading(b, 1))
  IN  [i \in 1..Len(h) |-> h[i].text]

\* The eight numbered sections; their headings read "<i>. <title>".
SectionTitles ==
  << "Overview", "Architecture & Flow", "Technology Stack",
     "How Components Connect", "Key Annotations Explained",
     "Database & ORM Concepts", "API Endpoints", "Request-Response Lifecycle" >>
Numbered(i) == ToString(i) \o ". " \o SectionTitles[i]

\* The text of a paragraph built from runs.
RunText(b) == IF b.runs = <<>> THEN "" ELSE b.runs[1].text

\* C2: in the saved document the title and the subtitle are the first two
\* blocks, the 'Table of Contents' heading is the first heading, and the
\* level-1 headings after it are exactly the eight numbered section titles
\* in order ("1. Overview" .. "8. Request-Response Lifecycle"), then one
\* Summary heading, then one Next Steps heading, and no other.
C2_SectionOrder ==
  SavedOk =>
    LET d == SavedDoc
        h == H1Texts(d)
    IN  /\ d[1].kind = "paragraph" /\ RunText(d[1]) = "Spring Boot E-Commerce Backend"
        /\ d[2].kind = "paragraph" /\ RunText(d[2]) = "Complete Architecture Guide"
        /\ \E t \in 3..Len(d) :
             /\ Ident(d[t]) = HeadingId("Table of Contents", 1)
             /\ \A i \in 1..(t - 1) : d[i].kind = "paragraph"
        /\ Len(h) = Len(SectionTitles) + 3
        /\ h[1] = "Table of Contents"
        /\ \A i \in 1..Len(SectionTitles) : h[i + 1] = Numbered(i)
        /\ StartsWith(h[Len(SectionTitles) + 2], "Summary")
        /\ StartsWith(h[Len(SectionTitles) + 3], "Next Steps")

\* C2 witness: a saved document with its eleven level-1 headings.
C2_Witness ==
  /\ SavedOk
  /\ status = "done"
  /\ Len(H1Texts(SavedDoc)) = Len(SectionTitles) + 3
  /\ H1Texts(SavedDoc)[2] = "1. Overview"

\* C3: the saved document has exactly 8 table-of-contents entries: the 8
\* blocks directly after the 'Table of Contents' heading are 'List Bullet'
\* paragraphs "1. Overview" .. "8. Request-Response Lifecycle" in this
\* order, the block after them is no bullet, and the i-th entry's text is
\* the text of the i-th numbered level-1 heading appended later.
C3_TocEntries ==
  SavedOk =>
    LET d == SavedDoc
        h == H1Texts(d)
        n == Len(SectionTitles)
    IN  \E t \in 1..Len(d) :
          /\ Ident(d[t]) = HeadingId("Table of Contents", 1)
          /\ Count(d, HeadingId("Table of Contents", 1)) = 1
          /\ Len(d) > t + n
          /\ \A i \in 1..n :
               /\ Ident(d[t + i]) = BulletId(Numbered(i))
               /\ d[t + i].runs = <<>>
               /\ Len(h) >= i + 1
               /\ h[i + 1] = d[t + i].text
               /\ \E j \in (t + n + 1)..Len(d) :
                    Ident(d[j]) = HeadingId(d[t + i].text, 1)
          /\ ~IsBullet(d[t + n + 1])

\* C3 witness: a saved document whose eighth entry matches the heading of
\* section 8.
C3_Witness ==
  /\ SavedOk
  /\ \E t \in 1..Len(SavedDoc) :
       /\ Ident(SavedDoc[t]) = HeadingId("Table of Contents", 1)
       /\ Len(SavedDoc) > t + 8
       /\ SavedDoc[t + 8].text = "8. Request-Response Lifecycle"
       /\ H1Texts(SavedDoc)[9] = SavedDoc[t + 8].text

Tables(d) == { i \in 1..Len(d) : d[i].kind = "table" }
Shape(b, rows, cols) ==
  /\ Len(b.cells) = rows
  /\ \A r \in 1..rows : Len(b.cells[r]) = cols

\* C4: add_table is called at most once in a run and exactly once before
\* the save; a table has 5 rows and 2 columns from its creation on; the
\* saved document has exactly one table, whose row 0 reads
\* 'HTTP Method & Path' / 'Purpose'.
C4_OneTable ==
  /\ Cardinality({ i \in 1..Len(calls) : calls[i].op = "add_table" }) <= 1
  /\ \A i \in Tables(doc) : Shape(doc[i], 5, 2)
  /\ SavedOk =>
       /\ Cardinality({ i \in 1..Len(calls) : calls[i].op = "add_table" }) = 1
       /\ Cardinality(Tables(SavedDoc)) = 1
       /\ \A i \in Tables(SavedDoc) :
            /\ Shape(SavedDoc[i], 5, 2)
            /\ SavedDoc[i].cells[1] = << "HTTP Method & Path", "Purpose" >>

\* C4 witness: the saved document holds a table with its header row filled.
C4_Witness ==
  /\ SavedOk
  /\ \E i \in Tables(SavedDoc) : SavedDoc[i].cells[1][2] = "Purpose"

\* C5: rows 1..4 of the table match the four endpoint descriptions of the
\* API-endpoints section: for every i in 1..4 there is a level-2 heading
\* "Endpoint i: <cell 0 of row i>", the block after it is the 'Purpose:'
\* heading, and the paragraph under that heading reads <cell 1 of row i>.
C5_RowsMatchEndpoints ==
  SavedOk =>
    LET d == SavedDoc IN
      \A t \in Tables(d) : \A i \in 1..4 :
        \E e \in 1..(Len(d) - 2) :
          /\ Ident(d[e]) =
               HeadingId("Endpoint " \o ToString(i) \o ": " \o d[t].cells[i + 1][1], 2)
          /\ Ident(d[e + 1]) = HeadingId("Purpose:", 3)
          /\ d[e + 2].kind = "paragraph"
          /\ d[e + 2].text = d[t].cells[i + 1][2]

PageBreaks(d) == { i \in 1..Len(d) : d[i].kind = "page_break" }
H1s(d) == { i \in 1..Len(d) : IsHeading(d[i], 1) }

\* C6: the run inserts as many page breaks as there are boundaries between
\* major sections: the saved document has 11 level-1 headings ('Table of
\* Contents' to 'Next Steps for Learning') and 10 page breaks, every page
\* break is directly followed by a level-1 heading, and every level-1
\* heading but 'Table of Contents' is directly preceded by a page break.
C6_PageBreaks ==
  SavedOk =>
    LET d == SavedDoc IN
      /\ Cardinality(H1s(d)) = 11
      /\ Cardinality(PageBreaks(d)) = 10
      /\ Cardinality({ i \in 1..Len(calls) : calls[i].op = "add_page_break" }) = 10
      /\ \A i \in PageBreaks(d) : i < Len(d) /\ IsHeading(d[i + 1], 1)
      /\ \A i \in H1s(d) :
           d[i].text # "Table of Contents" => (i > 1 /\ d[i - 1].kind = "page_break")
      /\ \E i \in H1s(d) : d[i].text = "Table of Contents"

\* C6 witness: a saved document with a page break directly before the
\* heading of the last section.
C6_Witness ==
  /\ SavedOk
  /\ \E i \in PageBreaks(SavedDoc) :
       /\ i < Len(SavedDoc)
       /\ SavedDoc[i + 1].text = "Next Steps for Learning"

\* C7: doc.save is the only file-system action of a run and is called
\* once, after the last content operation: no file differs from what it
\* was at the start of the run before save is called, no path other than
\* the output path is ever written, save is never called twice, a run that
\* reaches its end has called it once, and once save has been called no
\* step of the run adds or changes a block, run, cell or style.
C7_SaveOnceAtEnd ==
  /\ [](/\ saves <= 1
        /\ (saves = 0 => fs = fs0)
        /\ (\A p \in Paths \ {OutputPath} : fs[p] = fs0[p])
        /\ (status = "done" => saves = 1)
        /\ (SavedOk => (SavedDoc = doc /\ fs[OutputPath].styles = styles)))
  /\ [][(saves >= 1 /\ run' = run) =>
          (doc' = doc /\ styles' = styles /\ calls' = calls /\ fs' = fs)]_vars

\* C7 witness: a run that has called save once and then ran to its end.
C7_Witness ==
  /\ status = "done"
  /\ saves = 1
  /\ fs # fs0
  /\ SavedDoc = doc

Line1 == "Word document created successfully!"
Line2 == "Location: " \o OutputPath

\* C8: the standard output of a run is always a prefix of the two
\* confirmation lines (so each is printed at most once and in this order),
\* nothing is printed unless save has returned without error, a run that
\* reaches its end has printed both, and a run whose save failed has
\* printed nothing and prints nothing afterwards.
C8_PrintAfterSave ==
  /\ [](/\ stdout \in { <<>>, << Line1 >>, << Line1, Line2 >> }
        /\ (stdout # <<>> => SavedOk)
        /\ (status = "done" => stdout = << Line1, Line2 >>)
        /\ (status = "failed" => stdout = <<>>))
  /\ [][(status = "failed" /\ run' = run) => stdout' = stdout]_vars

\* C8 witness: both lines printed after a successful save.
C8_Witness ==
  /\ SavedOk
  /\ stdout = << Line1, Line2 >>

\* C8 witness of the failing case: the save failed and nothing is printed.
C8_WitnessFailed ==
  /\ status = "failed"
  /\ saves = 1
  /\ stdout = <<>>

C10_ByteIdentical ==
  (run >= 2 /\ status = "done" /\ prev.status = "done") =>
    fs[OutputPath] = prev.file

(***************************************************************************)
(* Termination.  The process is single-threaded and synchronous: once      *)
(* started, the interpreter executes the statement under pc; nothing can   *)
(* suspend it.  Running the script again is up to the user (no fairness).  *)
(***************************************************************************)
RunStep ==
  \/ NewDocument \/ BindStyle \/ BindFont \/ SetFont
  \/ AddParagraph \/ AddHeading \/ AddPageBreak
  \/ AddTable \/ SetTableStyle \/ SetCellText
  \/ AddRun \/ SetRun \/ SetAlignment \/ SetParaStyleFont
  \/ AssignList \/ ForIterate \/ ForExit \/ EndFor
  \/ IfStartsWith \/ Else
  \/ AssignStr \/ SaveOk \/ SaveOpenError \/ SaveWriteError \/ PrintLine

FairSpec == Spec /\ WF_vars(RunStep)

Completed == status = "done" /\ SavedOk /\ stdout = << Line1, Line2 >>
Failed == status = "failed" /\ error # "none"

\* C11: every run terminates.  A running process always eventually is
\* completed (save done, both lines printed) or failed (ended by the
\* error of save); while a loop runs, the list it iterates over is not
\* modified and the iterator only advances; a completed or failed run
\* takes no further step (the only step from there starts another run),
\* and a finished run is either completed or failed.
C11_Terminates ==
  /\ (status = "running") ~> (Completed \/ Failed)
  /\ [](status # "running" => (Completed \/ Failed))
  /\ [][(iter.list # "" /\ iter'.list = iter.list) =>
          (lists'[iter.list] = lists[iter.list] /\ iter'.idx >= iter.idx)]_vars
  /\ [][(iter.list # "" /\ run' = run) => lists'[iter.list] = lists[iter.list]]_vars
  /\ [][status # "running" => (run' # run /\ status' = "running")]_vars

\* C11 witness: a second run has completed after a first run that failed.
C11_Witness ==
  /\ Completed
  /\ run = 2
  /\ prev.status = "failed"

\* C11 witness inside a loop: the last item of next_steps is being appended.
C11_WitnessLoop ==
  /\ status = "running"
  /\ iter.list = "next_steps"
  /\ iter.idx = Len(lists["next_steps"])
  /\ iter.idx = 10

\* The cell a set_cell_text statement addresses, as the table has it.
InGrid(b, row, col) ==
  /\ row + 1 \in 1..Len(b.cells)
  /\ col + 1 \in 1..Len(b.cells[row + 1])

\* C12: every cell of the 5x2 table is filled exactly once.  Each
\* assignment addresses a cell inside rows 0..4 and columns 0..1 of the
\* table, the cell is still empty and the text is not, and the table is
\* the last block of the document (after add_table, before the next block
\* is appended); cell texts change in no other step; at save no cell is
\* empty.  Ten cells, each written while empty and all filled at save:
\* each is assigned exactly once.
C12_CellsFilledOnce ==
  /\ [][At("set_cell_text") =>
          LET t == tvars[Cur.var] IN
            /\ t = Len(doc)
            /\ t >= 1
            /\ doc[t].kind = "table"
            /\ Cur.row \in 0..4
            /\ Cur.col \in 0..1
            /\ InGrid(doc[t], Cur.row, Cur.col)
            /\ doc[t].cells[Cur.row + 1][Cur.col + 1] = ""
            /\ Cur.val # ""
            /\ doc'[t].cells[Cur.row + 1][Cur.col + 1] = Cur.val
            /\ \A r \in 1..5, c \in 1..2 :
                 << r, c >> # << Cur.row + 1, Cur.col + 1 >> =>
                   doc'[t].cells[r][c] = doc[t].cells[r][c]]_vars
  /\ [][(run' = run /\ ~At("set_cell_text")) =>
          \A i \in Tables(doc) : doc'[i].cells = doc[i].cells]_vars
  /\ [](SavedOk =>
          /\ Tables(SavedDoc) # {}
          /\ \A i \in Tables(SavedDoc) :
               /\ Shape(SavedDoc[i], 5, 2)
               /\ \A r \in 1..5, c \in 1..2 : SavedDoc[i].cells[r][c] # "")

\* C12 witness: the last cell (row 4, column 1) has just been filled and
\* the table is still the last block.
C12_Witness ==
  /\ status = "running"
  /\ Len(doc) >= 1
  /\ doc[Len(doc)].kind = "table"
  /\ \A r \in 1..5, c \in 1..2 : doc[Len(doc)].cells[r][c] # ""
  /\ doc[Len(doc)].cells[5][2] = "Download product image"

\* C13: the default font set at the start of the run ('Normal': Calibri,
\* 11pt) is still in force when the document is saved, and once set no
\* later step of the run changes the font of the 'Normal' style.
C13_DefaultFontKept ==
  /\ [](SavedOk => fs[OutputPath].styles["Normal"] = [name |-> "Calibri", size |-> 11])
  /\ [][(styles["Normal"] = [name |-> "Calibri", size |-> 11] /\ run' = run) =>
          styles'["Normal"] = [name |-> "Calibri", size |-> 11]]_vars

\* The font name paragraph i of d is rendered with under the styles st: the
\* script sets no font name on a run, so it is the font name of the
\* paragraph's style.
FontName(d, st, i) == st[StyleOf(d[i])].name

\* C14: list items are independent paragraphs.  Giving one code-sample
\* paragraph the 'Courier New' font leaves unchanged the font of every other
\* paragraph that carries the same style name and was appended earlier (such
\* as the table-of-contents bullets), and a 'List Bullet' paragraph appended
\* later (an explanation bullet, a Summary bullet) still gets the font the
\* style had before any code sample was touched.
C14_FontOfOneParagraph ==
  /\ [][At("set_para_style_font") =>
          LET p == pvars[Cur.var] IN
          \A i \in 1..Len(doc) :
            (i # p /\ doc[i].kind = "paragraph" /\ StyleOf(doc[i]) = StyleOf(doc[p])) =>
              FontName(doc', styles', i) = FontName(doc, styles, i)]_vars
  /\ [][(At("add_paragraph") /\ Cur.style = "List Bullet") =>
          FontName(doc', styles', Len(doc')) = DefaultStyles["List Bullet"].name]_vars

\* The conditionals of the script, and the entries of its request_path list.
Conditionals == { k \in 1..Len(Script) : Script[k].op = "if_startswith" }
RequestPath ==
  LET a == CHOOSE k \in 1..Len(Script) :
             Script[k].op = "assign_list" /\ Script[k].var = "request_path"
  IN  Script[a].items

\* C15: no branching affects the output.  The script has exactly one
\* conditional (does the request-path entry start with '['); its two
\* branches are the same statement, appending the entry as a 'List Bullet'
\* paragraph, and whichever way the test goes that statement runs next; so
\* the saved document holds all 12 request-path entries, in list order, as
\* 'List Bullet' paragraphs right after the 'Request Path' heading, and the
\* blocks saved are the same in every run.
C15_BranchesAgree ==
  /\ [](/\ Cardinality(Conditionals) = 1
        /\ \A k \in Conditionals :
             LET then == Script[k + 1]
                 else == Script[k + Script[k].n + 2]
             IN  /\ Script[k].n = 1
                 /\ Script[k + 2].op = "else" /\ Script[k + 2].n = 1
                 /\ then.op = "add_paragraph" /\ else.op = "add_paragraph"
                 /\ then.text = Script[k].text /\ else.text = then.text
                 /\ then.style = "List Bullet" /\ else.style = then.style
                 /\ then.var = else.var
                 /\ Script[k + 4].op = "endfor")
  /\ [][At("if_startswith") =>
          /\ pc' = IF StartsWith(Item, "[") THEN pc + 1 ELSE pc + 3
          /\ Script[pc'].op = "add_paragraph"
          /\ Script[pc'].text = Cur.text
          /\ Script[pc'].style = "List Bullet"]_vars
  /\ [][(At("add_paragraph") /\ iter.list = "request_path") =>
          /\ doc' = Append(doc, Block("paragraph", RequestPath[iter.idx], "List Bullet", 0))
          /\ LET after == IF Script[pc'].op = "else"
                            THEN pc' + Script[pc'].n + 1 ELSE pc'
             IN  Script[after].op = "endfor"]_vars
  /\ [](SavedOk =>
          LET d == SavedDoc
              hs == { i \in 1..Len(d) : Ident(d[i]) =
                        HeadingId("Request Path (What happens when you call an API):", 2) }
          IN  /\ Len(RequestPath) = 12
              /\ Cardinality(hs) = 1
              /\ \A h \in hs :
                   /\ \A j \in 1..12 : Ident(d[h + j]) = BulletId(RequestPath[j])
                   /\ ~IsBullet(d[h + 13]))
  /\ [](SavedOk /\ prev.status = "done" =>
          prev.file.kind = "docx" /\ SavedDoc = prev.file.blocks)

\* Both branches have been taken and the file is saved a second time.
C15_Witness ==
  /\ SavedOk /\ run = 2 /\ prev.status = "done"
  /\ \E i, j \in 1..Len(SavedDoc) :
       /\ Ident(SavedDoc[i]) = BulletId("[Data returned back up the chain]")
       /\ Ident(SavedDoc[j]) = BulletId("Jackson (Object to JSON)")
       /\ j = i + 1
  /\ StartsWith(RequestPath[9], "[") /\ ~StartsWith(RequestPath[10], "[")
====
